---------------------------- MODULE Spec2Model ----------------------------
(***************************************************************************)
(* A model of the HFPlot layout and boundary-search core:                  *)
(*   hfplot/plot_spec.py       FigureSpec / PlotSpec (grid, cells, spans)  *)
(*   hfplot/plot_spec_root.py  ROOTFigure / ROOTPlot (create, shared axes) *)
(*   hfplot/root_helpers.py    find_boundaries and find_boundaries_TH1     *)
(*                                                                         *)
(* Numbers.  Python floats are modelled by exact numbers of the form       *)
(*     a + e * FLOAT_MIN + w * FLOAT_MAX        (kind "lin")               *)
(* with a, e, w rationals, FLOAT_MIN = sys.float_info.min a positive       *)
(* quantity smaller than every positive rational and FLOAT_MAX =           *)
(* sys.float_info.max larger than every rational, and by                   *)
(*     10 ^ a                                   (kind "exp")               *)
(* for the results of 10**x and for MIN_LOG_SCALE = 10^-11.  Rounding of   *)
(* IEEE doubles is not modelled.  log10 is exact on the                    *)
(* powers of ten, on "exp" numbers and (to two decimal places) on          *)
(* FLOAT_MIN and FLOAT_MAX; the inputs explored with a logarithmic axis    *)
(* are those whose positive values are powers of ten or FLOAT_MIN.  10**x  *)
(* overflows above FLOAT_MAX and is 0.0 below the subnormal doubles.       *)
(***************************************************************************)
EXTENDS Integers, Sequences, FiniteSets, TLC

(***************************************************************************)
(* Rationals <<n, d>>, d > 0, in lowest terms.                             *)
(***************************************************************************)
Abs(x) == IF x < 0 THEN -x ELSE x

RECURSIVE GCD(_, _)
GCD(a, b) == IF b = 0 THEN a ELSE GCD(b, a % b)

RNorm(n, d) ==
    LET s == IF d < 0 THEN -1 ELSE 1
        g == GCD(Abs(n), Abs(d))
    IN  <<(s * n) \div g, (s * d) \div g>>

R(n) == <<n, 1>>
RZero == <<0, 1>>
ROne == <<1, 1>>
RAdd(p, q) == RNorm(p[1] * q[2] + q[1] * p[2], p[2] * q[2])
RNeg(p) == <<-p[1], p[2]>>
RSub(p, q) == RAdd(p, RNeg(q))
RMul(p, q) == RNorm(p[1] * q[1], p[2] * q[2])
RDiv(p, q) == RNorm(p[1] * q[2], p[2] * q[1])
RLess(p, q) == p[1] * q[2] < q[1] * p[2]
RLeq(p, q) == p[1] * q[2] <= q[1] * p[2]
RIsInt(p) == p[2] = 1

(***************************************************************************)
(* Floats.                                                                 *)
(***************************************************************************)
Lin3(a, e, w) == [k |-> "lin", a |-> a, e |-> e, w |-> w]
Lin(a) == Lin3(a, RZero, RZero)
Num(n) == Lin(R(n))
Exp(q) == [k |-> "exp", a |-> q, e |-> RZero, w |-> RZero]
None == [k |-> "none", a |-> RZero, e |-> RZero, w |-> RZero]

Zero == Num(0)
One == Num(1)
FLOAT_MAX == Lin3(RZero, RZero, ROne)
FLOAT_MIN == Lin3(RZero, ROne, RZero)
MIN_LOG_SCALE == Exp(R(-11))

\* log10 of sys.float_info.max (308.2547...) and of sys.float_info.min
\* (-307.6526...), to two decimal places
Log10FloatMax == RNorm(30825, 100)
Log10FloatMin == RNorm(-30765, 100)

\* the powers of ten that are written as rationals: 10^-MaxPow10 .. 10^MaxPow10
MaxPow10 == 4

RECURSIVE IPow10(_)
IPow10(n) == IF n = 0 THEN 1 ELSE 10 * IPow10(n - 1)

RPow10(z) == IF z >= 0 THEN <<IPow10(z), 1>> ELSE <<1, IPow10(-z)>>

IsRatPow10(p) == \E z \in (-MaxPow10)..MaxPow10 : p = RPow10(z)
RatLog10(p) == CHOOSE z \in (-MaxPow10)..MaxPow10 : p = RPow10(z)

IsNone(x) == x.k = "none"
IsPure(x) == x.k = "lin" /\ x.e = RZero /\ x.w = RZero

\* sign of a number: -1, 0, 1
RSign(p) == IF p[1] < 0 THEN -1 ELSE IF p[1] = 0 THEN 0 ELSE 1
Sign(x) ==
    IF x.k = "exp" THEN 1
    ELSE IF RSign(x.w) # 0 THEN RSign(x.w)
    ELSE IF RSign(x.a) # 0 THEN RSign(x.a)
    ELSE RSign(x.e)

\* +, -, and the product with a plain rational, on "lin" numbers
Add(x, y) == Lin3(RAdd(x.a, y.a), RAdd(x.e, y.e), RAdd(x.w, y.w))
Sub(x, y) == Lin3(RSub(x.a, y.a), RSub(x.e, y.e), RSub(x.w, y.w))
Scale(q, x) == Lin3(RMul(q, x.a), RMul(q, x.e), RMul(q, x.w))

\* math.log10 of a positive number
CanLog10(x) ==
    \/ x.k = "exp"
    \/ x = FLOAT_MAX
    \/ x = FLOAT_MIN
    \/ IsPure(x) /\ IsRatPow10(x.a)
Log10(x) ==
    IF x.k = "exp" THEN Lin(x.a)
    ELSE IF x = FLOAT_MAX THEN Lin(Log10FloatMax)
    ELSE IF x = FLOAT_MIN THEN Lin(Log10FloatMin)
    ELSE Num(RatLog10(x.a))

\* 10 ** x for a plain rational x: an OverflowError above the largest double,
\* 0.0 below the smallest subnormal double (10 ** x is 0.0 for x < -323.6)
Log10Underflow == RNorm(-3236, 10)
PowOverflows(x) == RLess(Log10FloatMax, x.a)
Pow10(x) ==
    IF RLess(x.a, Log10Underflow) THEN Zero
    ELSE IF RIsInt(x.a) /\ x.a[1] \in (-MaxPow10)..MaxPow10
    THEN Lin(RPow10(x.a[1]))
    ELSE Exp(x.a)

\* the order of the floats.  10^q is compared with a positive "lin" number v
\* through log10(v) when v is a power of ten, FLOAT_MIN or FLOAT_MAX, and
\* through the decade 10^z <= v < 10^(z+1) of v otherwise.
Decade(p) == CHOOSE z \in (-MaxPow10)..(MaxPow10 - 1) :
                 RLeq(RPow10(z), p) /\ RLess(p, RPow10(z + 1))
ExpLessLin(q, v) ==
    IF Sign(v) <= 0 THEN FALSE
    ELSE IF RSign(v.w) > 0 THEN RLess(q, Log10FloatMax)
    ELSE IF RSign(v.a) = 0 THEN RLess(q, Log10FloatMin)
    ELSE IF IsRatPow10(v.a) THEN RLess(q, R(RatLog10(v.a)))
    ELSE IF RLeq(q, R(Decade(v.a))) THEN TRUE
    ELSE CHOOSE b \in {FALSE} : RLeq(R(Decade(v.a) + 1), q)
LinLessExp(v, q) ==
    IF Sign(v) <= 0 THEN TRUE
    ELSE IF RSign(v.w) > 0 THEN RLess(Log10FloatMax, q)
    ELSE IF RSign(v.a) = 0 THEN RLess(Log10FloatMin, q)
    ELSE IF IsRatPow10(v.a) THEN RLess(R(RatLog10(v.a)), q)
    ELSE IF RLeq(R(Decade(v.a) + 1), q) THEN TRUE
    ELSE CHOOSE b \in {FALSE} : RLeq(q, R(Decade(v.a)))
Less(x, y) ==
    IF x.k = "lin" /\ y.k = "lin" THEN Sign(Sub(x, y)) < 0
    ELSE IF x.k = "exp" /\ y.k = "exp" THEN RLess(x.a, y.a)
    ELSE IF x.k = "exp" THEN ExpLessLin(x.a, y)
    ELSE LinLessExp(x, y.a)
Leq(x, y) == x = y \/ Less(x, y)
Min2(x, y) == IF Less(y, x) THEN y ELSE x
Max2(x, y) == IF Less(x, y) THEN y ELSE x


(***************************************************************************)
(* Python lists.                                                           *)
(***************************************************************************)
Range(s) == {s[i] : i \in 1..Len(s)}
SetMin(S) == CHOOSE x \in S : \A y \in S : x <= y

\* s[i] with Python's indices: 0 .. len-1 and -len .. -1
PyIndexOK(s, i) == i >= -Len(s) /\ i < Len(s)
PyAt(s, i) == s[IF i < 0 THEN Len(s) + i + 1 ELSE i + 1]

RECURSIVE Repeat(_, _)
Repeat(x, n) == IF n <= 0 THEN <<>> ELSE Append(Repeat(x, n - 1), x)

RECURSIVE RSum(_)
RSum(s) == IF s = <<>> THEN RZero ELSE RAdd(RSum(SubSeq(s, 1, Len(s) - 1)), s[Len(s)])

(***************************************************************************)
(* plot_helpers.make_margins.  A Python value given as a margin is a       *)
(* number (form "scalar") or a tuple/list of such values (form "list").    *)
(***************************************************************************)
PyScalar(v) == [form |-> "scalar", v |-> v, items |-> <<>>]
PyList(items) == [form |-> "list", v |-> RZero, items |-> items]
PyPair(low, high) == PyList(<<PyScalar(low), PyScalar(high)>>)
IsIterable(x) == x.form = "list"

Returns(val) == [exc |-> "none", val |-> val]
Raises(exc) == [exc |-> exc, val |-> <<>>]

\* "for m in margins: if len(m) != 2: raise ValueError", from element i on
RECURSIVE check_pairs(_, _)
check_pairs(items, i) ==
    IF i > Len(items) THEN "none"
    ELSE IF ~IsIterable(items[i]) THEN "TypeError"
    ELSE IF Len(items[i].items) # 2 THEN "ValueError"
    ELSE check_pairs(items, i + 1)

\* mutant: a scalar gives one pair, whatever the number of slices
make_margins_one_slice(margins, n_slices) == Returns(<<PyList(<<margins, margins>>)>>)

make_margins(margins, n_slices) ==
    IF ~IsIterable(margins)
    THEN Returns(Repeat(PyList(<<margins, margins>>), n_slices))
    ELSE IF margins.items = <<>> THEN Raises("IndexError")
    ELSE IF ~IsIterable(margins.items[1])
    THEN IF Len(margins.items) # 2 THEN Raises("ValueError")
         ELSE Returns(Repeat(margins, n_slices))
    ELSE IF Len(margins.items) # n_slices THEN Raises("ValueError")
    ELSE IF check_pairs(margins.items, 1) # "none"
    THEN Raises(check_pairs(margins.items, 1))
    ELSE Returns(margins.items)

\* mutant: the high margin of a span is taken from entry [0] of the pair
MarginHigh_reads_low(margins, i) == PyAt(margins, i).items[1].v

\* margins[i][0] and margins[i][1] of a list of (low, high) pairs
MarginLow(margins, i) == PyAt(margins, i).items[1].v
MarginHigh(margins, i) == PyAt(margins, i).items[2].v

(***************************************************************************)
(* PlotSpec / ROOTPlot: one region of the figure.                          *)
(***************************************************************************)
NoLimits == <<None, None>>

\* limits is a Python list: limits_id tells which list object it is, 0 for a
\* list no other AxisSpec holds, n > 0 for the list last given to
\* FigureSpec.axes while region n was current, which the default axis and the
\* axis of region n then both hold
AxisSpec ==
    [limits |-> NoLimits, limits_id |-> 0, is_log |-> FALSE, account_for_errors |-> TRUE]

LegendSpec == [position |-> "top right", n_columns |-> 1, principal_position |-> "None"]

\* deepcopy(ax): the copy has a list of its own
deepcopy_axis(ax) == [ax EXCEPT !.limits_id = 0]

PlotSpec(rel, column_margins, row_margins, axes) ==
    [_rel_coordinates |-> rel,
     _column_margins |-> column_margins,
     _row_margins |-> row_margins,
     _axes |-> axes,
     _share_x |-> 0,
     _share_y |-> 0,
     _title |-> "None",
     _legend_spec |-> LegendSpec,
     _texts |-> <<>>,
     _lines |-> <<>>,
     objects |-> <<>>,
     pad |-> FALSE]

TextSpec(text, x_low, y_low, size) ==
    [text |-> text, x_low |-> x_low, y_low |-> y_low, size |-> size]

LineSpec(x_low, x_up, y_low, y_up, x_orientation, y_orientation) ==
    [x_low |-> x_low, x_up |-> x_up, y_low |-> y_low, y_up |-> y_up,
     x_orientation |-> x_orientation, y_orientation |-> y_orientation]

(***************************************************************************)
(* Keyword arguments of define_plot: the keys passed and their values.     *)
(* A region is referred to by its position in _plot_specs (1, 2, ...);     *)
(* 0 is Python's None.                                                     *)
(***************************************************************************)
Kwargs(keys, x_log, y_log, z_log, share_x, share_y, title) ==
    [keys |-> keys, x_log |-> x_log, y_log |-> y_log, z_log |-> z_log,
     share_x |-> share_x, share_y |-> share_y, title |-> title]
NoKwargs == Kwargs({}, FALSE, FALSE, FALSE, 0, 0, "None")

(***************************************************************************)
(* FigureSpec.__init__ up to the automatic define_plot of a 1x1 grid.      *)
(***************************************************************************)
DefaultRatios(n) == Repeat(ROne, n)

FigureFields(n_cols, n_rows, height_ratios, width_ratios, row_margin, column_margin) ==
    [n_cols |-> n_cols,
     n_rows |-> n_rows,
     _height_ratios |-> IF height_ratios = <<>> THEN DefaultRatios(n_rows) ELSE height_ratios,
     _width_ratios |-> IF width_ratios = <<>> THEN DefaultRatios(n_cols) ELSE width_ratios,
     _row_margins |-> make_margins(row_margin, n_rows).val,
     _column_margins |-> make_margins(column_margin, n_cols).val,
     cells_taken |-> <<>>,
     _plot_specs |-> <<>>,
     _current_plot_spec |-> 0,
     _default_axes |-> <<AxisSpec, AxisSpec, AxisSpec>>,
     _default_legend |-> LegendSpec]

(***************************************************************************)
(* FigureSpec.__add_cell and FigureSpec.__compute_cells                    *)
(***************************************************************************)
\* mutant: a cell is recorded whether or not it is already taken
add_cell_always_appends(cells, cell) == Append(cells, cell)

add_cell(cells, cell) ==
    IF cell \in Range(cells) THEN cells ELSE Append(cells, cell)

\* the loops "for i in range(walk_n_rows): for j in range(walk_n_cols)",
\* flattened: step k is i = k \div walk_n_cols, j = k % walk_n_cols
RECURSIVE walk_cells(_, _, _, _, _, _)
walk_cells(cells, low_left, n_cols, walk_n_cols, k, steps) ==
    IF k >= steps THEN cells
    ELSE LET i == k \div walk_n_cols
             j == k % walk_n_cols
             cell_current == low_left + i * n_cols
         IN  walk_cells(IF i = 0 /\ j = 0 THEN cells ELSE add_cell(cells, cell_current + j),
                        low_left, n_cols, walk_n_cols, k + 1, steps)

WalkRows(row_low, row_up) == row_up - row_low
WalkCols(col_low, col_up) == col_up - col_low

compute_cells(fig, col_low, row_low, col_up, row_up) ==
    LET low_left == row_low * fig.n_cols + col_low
        walk_n_rows == WalkRows(row_low, row_up)
        walk_n_cols == WalkCols(col_low, col_up)
        steps == IF walk_n_rows > 0 /\ walk_n_cols > 0 THEN walk_n_rows * walk_n_cols ELSE 0
    IN  walk_cells(add_cell(fig.cells_taken, low_left), low_left, fig.n_cols,
                   walk_n_cols, 0, steps)

\* the warnings of __add_cell ("if cell in self.cells_taken: warning") over the
\* same loops: their number after step k, given the cells taken so far
RECURSIVE walk_warnings(_, _, _, _, _, _, _)
walk_warnings(cells, low_left, n_cols, walk_n_cols, k, steps, warnings) ==
    IF k >= steps THEN warnings
    ELSE LET i == k \div walk_n_cols
             j == k % walk_n_cols
             cell == low_left + i * n_cols + j
             skipped == i = 0 /\ j = 0
         IN  walk_warnings(IF skipped THEN cells ELSE add_cell(cells, cell),
                           low_left, n_cols, walk_n_cols, k + 1, steps,
                           IF ~skipped /\ cell \in Range(cells) THEN warnings + 1
                           ELSE warnings)

compute_cells_warnings(fig, col_low, row_low, col_up, row_up) ==
    LET low_left == row_low * fig.n_cols + col_low
        walk_n_rows == WalkRows(row_low, row_up)
        walk_n_cols == WalkCols(col_low, col_up)
        steps == IF walk_n_rows > 0 /\ walk_n_cols > 0 THEN walk_n_rows * walk_n_cols ELSE 0
    IN  walk_warnings(add_cell(fig.cells_taken, low_left), low_left, fig.n_cols,
                      walk_n_cols, 0, steps,
                      IF low_left \in Range(fig.cells_taken) THEN 1 ELSE 0)

(***************************************************************************)
(* FigureSpec.__make_plot_spec                                             *)
(***************************************************************************)
\* "for i in range(low): rel += ratios[i] / sum"; the value of rel after
\* one pass is a member of a one-element set, so that it is computed before
\* the next pass
RECURSIVE add_ratios(_, _, _, _, _)
add_ratios(ratios, sum, i, low, rel) ==
    IF i >= low THEN rel
    ELSE CHOOSE r \in {add_ratios(ratios, sum, i + 1, low, added) :
                          added \in {RAdd(rel, RDiv(PyAt(ratios, i), sum))}} : TRUE

\* "for i in range(n - 1, up, -1): rel -= ratios[i] / sum"
RECURSIVE subtract_ratios(_, _, _, _, _)
subtract_ratios(ratios, sum, i, up, rel) ==
    IF i <= up THEN rel
    ELSE CHOOSE r \in {subtract_ratios(ratios, sum, i - 1, up, subtracted) :
                          subtracted \in {RSub(rel, RDiv(PyAt(ratios, i), sum))}} : TRUE

\* mutant: the loop from the top also subtracts the upper cell of the span
rel_up_includes_upper_cell(ratios, up) ==
    subtract_ratios(ratios, RSum(ratios), Len(ratios) - 1, up - 1, ROne)

\* mutant: the ratios below the span are not divided by the sum of the ratios
rel_low_not_normalised(ratios, low) == add_ratios(ratios, ROne, 0, low, RZero)

rel_low(ratios, low) == add_ratios(ratios, RSum(ratios), 0, low, RZero)
rel_up(ratios, up) == subtract_ratios(ratios, RSum(ratios), Len(ratios) - 1, up, ROne)

\* the list indices __make_plot_spec reads
IndicesRead(n, low, up) == (0..(low - 1)) \cup ((up + 1)..(n - 1)) \cup {low, up}

\* the ratios and the margins of an axis are lists of the same length, so
\* an index is out of range for both or for neither
make_plot_spec_raises(fig, col_low, row_low, col_up, row_up) ==
    \/ \E i \in IndicesRead(fig.n_rows, row_low, row_up) : ~PyIndexOK(fig._height_ratios, i)
    \/ \E i \in IndicesRead(fig.n_cols, col_low, col_up) : ~PyIndexOK(fig._width_ratios, i)

\* the exception of the two loops over one list of ratios: each division by
\* a zero sum raises ZeroDivisionError, and the first index of either loop
\* (0, n - 1) is in range
ratio_loops_exc(ratios, low, up) ==
    IF (low > 0 \/ up < Len(ratios) - 1) /\ RSum(ratios) = RZero THEN "ZeroDivisionError"
    ELSE IF \E i \in (0..(low - 1)) \cup ((up + 1)..(Len(ratios) - 1)) : ~PyIndexOK(ratios, i)
    THEN "IndexError"
    ELSE "none"

\* the exception __make_plot_spec raises: the rows' loops, then the columns'
\* loops, then the margins
make_plot_spec_exc(fig, col_low, row_low, col_up, row_up) ==
    IF ratio_loops_exc(fig._height_ratios, row_low, row_up) # "none"
    THEN ratio_loops_exc(fig._height_ratios, row_low, row_up)
    ELSE IF ratio_loops_exc(fig._width_ratios, col_low, col_up) # "none"
    THEN ratio_loops_exc(fig._width_ratios, col_low, col_up)
    ELSE IF make_plot_spec_raises(fig, col_low, row_low, col_up, row_up) THEN "IndexError"
    ELSE "none"


\* FigureSpec.__set_defaults_for_plot_spec
set_defaults_for_plot_spec(fig, plot_spec) ==
    [plot_spec EXCEPT !._axes = [i \in 1..3 |-> deepcopy_axis(fig._default_axes[i])],
                      !._legend_spec = fig._default_legend]

make_plot_spec(fig, col_low, row_low, col_up, row_up) ==
    LET rel_bottom == rel_low(fig._height_ratios, row_low)
        rel_top == rel_up(fig._height_ratios, row_up)
        rel_left == rel_low(fig._width_ratios, col_low)
        rel_right == rel_up(fig._width_ratios, col_up)
    IN  set_defaults_for_plot_spec(fig,
            PlotSpec(<<rel_left, rel_bottom, rel_right, rel_top>>,
                     <<MarginLow(fig._column_margins, col_low), MarginHigh(fig._column_margins, col_up)>>,
                     <<MarginLow(fig._row_margins, row_low), MarginHigh(fig._row_margins, row_up)>>,
                     <<AxisSpec, AxisSpec, AxisSpec>>))


(***************************************************************************)
(* FigureSpec.consume_plot_kwargs, on the current region                   *)
(***************************************************************************)
KwGet(kw, key, value, default) == IF key \in kw.keys THEN value ELSE default

consume_plot_kwargs(fig, kw) ==
    LET c == fig._current_plot_spec
        ps == fig._plot_specs[c]
        axes == <<[ps._axes[1] EXCEPT !.is_log = KwGet(kw, "x_log", kw.x_log, @)],
                  [ps._axes[2] EXCEPT !.is_log = KwGet(kw, "y_log", kw.y_log, @)],
                  [ps._axes[3] EXCEPT !.is_log = KwGet(kw, "z_log", kw.z_log, @)]>>
    IN  [fig EXCEPT !._plot_specs[c] =
            [ps EXCEPT !._axes = axes,
                       !._share_x = KwGet(kw, "share_x", kw.share_x, 0),
                       !._share_y = KwGet(kw, "share_y", kw.share_y, 0),
                       !._title = KwGet(kw, "title", kw.title, "None")]]

(***************************************************************************)
(* FigureSpec.define_plot.  The result of a call: the figure after it,     *)
(* the exception it raised ("none" when it returned) and the region it     *)
(* returned (its position in _plot_specs, 0 when it raised).               *)
(***************************************************************************)
\* mutant: define_plot returns where it should raise
Outcome_never_raises(fig, exc, ret) == [fig |-> fig, exc |-> "none", ret |-> ret]

Outcome(fig, exc, ret) == [fig |-> fig, exc |-> exc, ret |-> ret]

\* mutant: the claimed cells are not removed from the candidates
FreeCells_ignores_claimed(fig) == 0..(fig.n_cols * fig.n_rows - 1)

\* the cells "for i in range(n_cols * n_rows): if i not in self.cells_taken"
FreeCells(fig) == (0..(fig.n_cols * fig.n_rows - 1)) \ Range(fig.cells_taken)

\* define_plot from the range checks on (lines 481-500)
place_plot(fig, col_low, row_low, col_up, row_up, kw) ==
    IF row_low < 0 \/ col_low < 0 THEN Outcome(fig, "ValueError", 0)
    ELSE IF row_up >= fig.n_rows \/ col_up >= fig.n_cols THEN Outcome(fig, "ValueError", 0)
    ELSE LET claimed == [fig EXCEPT !.cells_taken =
                            compute_cells(fig, col_low, row_low, col_up, row_up)]
         IN  IF make_plot_spec_exc(fig, col_low, row_low, col_up, row_up) # "none"
             THEN Outcome(claimed, make_plot_spec_exc(fig, col_low, row_low, col_up, row_up), 0)
             ELSE LET ps == make_plot_spec(fig, col_low, row_low, col_up, row_up)
                      added == [claimed EXCEPT
                                   !._plot_specs = Append(@, ps),
                                   !._current_plot_spec = Len(claimed._plot_specs) + 1]
                  IN  Outcome(consume_plot_kwargs(added, kw), "none",
                              added._current_plot_spec)

\* mutant: the number of positional arguments is not looked at
define_plot_any_arity(fig, cols_rows, kw) == place_plot(fig, 0, 0, 0, 0, kw)

define_plot(fig, cols_rows, kw) ==
    IF fig.n_cols = 1 /\ fig.n_rows = 1 /\ fig._current_plot_spec # 0
    THEN Outcome(consume_plot_kwargs(fig, kw), "none", fig._current_plot_spec)
    ELSE IF Len(cols_rows) = 0
    THEN IF FreeCells(fig) = {} THEN Outcome(fig, "IndexError", 0)
         ELSE LET cell == SetMin(FreeCells(fig))
                  col_low == cell % fig.n_cols
                  row_low == cell \div fig.n_cols
              IN  place_plot(fig, col_low, row_low, col_low, row_low, kw)
    ELSE IF Len(cols_rows) = 3 \/ Len(cols_rows) > 4 THEN Outcome(fig, "ValueError", 0)
    ELSE IF Len(cols_rows) = 2
    THEN place_plot(fig, cols_rows[1], cols_rows[2], cols_rows[1], cols_rows[2], kw)
    ELSE IF Len(cols_rows) = 4
    THEN place_plot(fig, cols_rows[1], cols_rows[2], cols_rows[3], cols_rows[4], kw)
    ELSE \* one argument: "col_low, row_low, col_up, row_up = cols_rows" cannot unpack
         Outcome(fig, "ValueError", 0)

\* the warnings self.logger is given in define_plot: those of __compute_cells,
\* when the call gets as far as line 490
place_plot_warnings(fig, col_low, row_low, col_up, row_up) ==
    IF row_low < 0 \/ col_low < 0 \/ row_up >= fig.n_rows \/ col_up >= fig.n_cols THEN 0
    ELSE compute_cells_warnings(fig, col_low, row_low, col_up, row_up)

define_plot_warnings(fig, cols_rows) ==
    IF fig.n_cols = 1 /\ fig.n_rows = 1 /\ fig._current_plot_spec # 0 THEN 0
    ELSE IF Len(cols_rows) = 0
    THEN IF FreeCells(fig) = {} THEN 0
         ELSE LET cell == SetMin(FreeCells(fig))
              IN  place_plot_warnings(fig, cell % fig.n_cols, cell \div fig.n_cols,
                                      cell % fig.n_cols, cell \div fig.n_cols)
    ELSE IF Len(cols_rows) = 2
    THEN place_plot_warnings(fig, cols_rows[1], cols_rows[2], cols_rows[1], cols_rows[2])
    ELSE IF Len(cols_rows) = 4
    THEN place_plot_warnings(fig, cols_rows[1], cols_rows[2], cols_rows[3], cols_rows[4])
    ELSE 0

\* mutant: change_plot makes the region after the one asked for current
change_plot_off_by_one(fig, plot_id) ==
    IF plot_id >= 0 /\ plot_id + 1 < Len(fig._plot_specs)
    THEN Outcome([fig EXCEPT !._current_plot_spec = plot_id + 2], "none", plot_id + 2)
    ELSE Outcome(fig, "ValueError", 0)

\* FigureSpec.change_plot; plot_id counts from 0, the regions of the model
\* from 1
change_plot(fig, plot_id) ==
    IF plot_id < 0
    THEN IF fig._current_plot_spec # 0 THEN Outcome(fig, "none", fig._current_plot_spec)
         ELSE Outcome(fig, "ValueError", 0)
    ELSE IF Len(fig._plot_specs) <= plot_id THEN Outcome(fig, "ValueError", 0)
    ELSE Outcome([fig EXCEPT !._current_plot_spec = plot_id + 1], "none", plot_id + 1)

\* mutant: a 1x1 grid is not given its region at construction
NewFigure_without_auto_plot(n_cols, n_rows, height_ratios, width_ratios, row_margin, column_margin) ==
    FigureFields(n_cols, n_rows, height_ratios, width_ratios, row_margin, column_margin)

\* FigureSpec.__init__ / ROOTFigure.__init__
NewFigure(n_cols, n_rows, height_ratios, width_ratios, row_margin, column_margin) ==
    LET fig == FigureFields(n_cols, n_rows, height_ratios, width_ratios,
                            row_margin, column_margin)
    IN  IF n_cols = 1 /\ n_rows = 1
        THEN define_plot(fig, <<0, 0>>, NoKwargs).fig
        ELSE fig

(***************************************************************************)
(* plot_helpers.make_equal_plot_sizes and plot_helpers.make_grid.  The     *)
(* figure class, the size and the axis titles make_grid passes on are not  *)
(* part of the figure modelled here.                                       *)
(***************************************************************************)
\* "if not ratios: ratios = [1] * n" takes None and the empty list alike
make_equal_plot_sizes(margins, ratios) ==
    LET n == Len(margins)
        filled == IF ratios = <<>> THEN Repeat(ROne, n) ELSE ratios
    IN  IF n # Len(filled) THEN Raises("ValueError")
        ELSE Returns([i \in 1..n |->
                         RAdd(filled[i],
                              RMul(RAdd(MarginLow(margins, i - 1), MarginHigh(margins, i - 1)),
                                   RSum(filled)))])

\* "[(low, 0)] + [(0, 0)] * (n - 1)" with "margin[-1] = (margin[-1][0], high)"
grid_margins(n, low, high) ==
    [i \in 1..n |-> PyPair(IF i = 1 THEN low ELSE RZero, IF i = n THEN high ELSE RZero)]

ShareKwargs(share_x, share_y) ==
    Kwargs({"share_x", "share_y"}, FALSE, FALSE, FALSE, share_x, share_y, "None")

\* the loops "for i in range(n_rows): for j in range(n_cols)", flattened: step
\* k is i = k \div n_cols, j = k % n_cols; share_x and share_y are the
\* variables of the same name as they stand before the step
RECURSIVE grid_plots(_, _, _, _)
grid_plots(fig, k, share_x, share_y) ==
    IF k >= fig.n_cols * fig.n_rows THEN Outcome(fig, "none", 0)
    ELSE LET i == k \div fig.n_cols
             j == k % fig.n_cols
             out == define_plot(fig, <<j, i>>,
                                ShareKwargs(IF i = 0 THEN 0 ELSE share_x,
                                            IF j = 0 THEN 0 ELSE share_y))
         IN  IF out.exc # "none" THEN out
             ELSE grid_plots(out.fig, k + 1,
                             IF i = 0 THEN out.ret ELSE share_x,
                             IF j = 0 THEN out.ret ELSE share_y)

\* "n_cols = n_cols_rows[0]; n_rows = n_cols_rows[1]", or the int for both
\* (the int n is the number <<n, 1>> of the Python values)
grid_n_cols(n_cols_rows) ==
    IF IsIterable(n_cols_rows) THEN n_cols_rows.items[1].v[1] ELSE n_cols_rows.v[1]
grid_n_rows(n_cols_rows) ==
    IF IsIterable(n_cols_rows) THEN n_cols_rows.items[2].v[1] ELSE n_cols_rows.v[1]

grid_figure(n_cols, n_rows, column_margin, row_margin) ==
    NewFigure(n_cols, n_rows,
              make_equal_plot_sizes(row_margin, <<>>).val,
              make_equal_plot_sizes(column_margin, <<>>).val,
              PyList(row_margin), PyList(column_margin))

make_grid(n_cols_rows, margin_left, margin_bottom, margin_right, margin_top) ==
    grid_plots(grid_figure(grid_n_cols(n_cols_rows), grid_n_rows(n_cols_rows),
                           grid_margins(grid_n_cols(n_cols_rows), margin_left, margin_right),
                           grid_margins(grid_n_rows(n_cols_rows), margin_bottom, margin_top)),
               0, 0, 0)


(***************************************************************************)
(* root_helpers.find_boundaries_TH1.  A 1D histogram is its lowest edge    *)
(* and the list of its bins <<content, error>>; the bins have unit width   *)
(* and are numbered from 1 as in ROOT.  GetBinError is never negative.     *)
(* Contents and errors are floats.                                         *)
(***************************************************************************)
TH1(xmin, bins) == [class |-> "TH1", xmin |-> xmin, bins |-> bins]
\* an object that is neither 1D nor 2D for is_1d / is_2d
TObject == [class |-> "TObject", xmin |-> 0, bins |-> <<>>]

GetNbinsX(histo) == Len(histo.bins)
GetBinContent(histo, i) == histo.bins[i][1]
GetBinError(histo, i) == histo.bins[i][2]
GetXmin(histo) == Num(histo.xmin)
GetXmax(histo) == Num(histo.xmin + GetNbinsX(histo))
GetBinLowEdge(histo, i) == Num(histo.xmin + i - 1)
GetBinUpEdge(histo, i) == Num(histo.xmin + i)

\* Python's truth value of a number
Truthy(x) == ~IsNone(x) /\ Sign(x) # 0

\* the loop of lines 164-173 from bin i on: <<x_low, start_bin>>
RECURSIVE find_start(_, _, _, _)
find_start(histo, x_log, i, x_low) ==
    IF i > GetNbinsX(histo) THEN <<x_low, 1>>
    ELSE IF Truthy(GetBinContent(histo, i))
    THEN IF (Sign(GetBinLowEdge(histo, i)) > 0 /\ x_log) \/ ~x_log
         THEN <<GetBinLowEdge(histo, i), i>>
         ELSE find_start(histo, x_log, i + 1, GetBinLowEdge(histo, i))
    ELSE find_start(histo, x_log, i + 1, x_low)

\* the loop of lines 179-185 from bin i down: <<x_up, end_bin>>
RECURSIVE find_end(_, _)
find_end(histo, i) ==
    IF i < 1 THEN <<GetXmax(histo), GetNbinsX(histo)>>
    ELSE IF Truthy(GetBinContent(histo, i)) THEN <<GetBinUpEdge(histo, i), i>>
    ELSE find_end(histo, i - 1)

\* the list comprehensions of lines 188-195 and 199-206
BinValue(histo, i, sign, y_account_for_errors) ==
    IF ~y_account_for_errors THEN GetBinContent(histo, i)
    ELSE IF sign > 0 THEN Add(GetBinContent(histo, i), GetBinError(histo, i))
    ELSE Sub(GetBinContent(histo, i), GetBinError(histo, i))
Values(histo, start_bin, end_bin, sign, y_log, y_account_for_errors) ==
    LET all == [j \in 1..(IF end_bin >= start_bin THEN end_bin - start_bin + 1 ELSE 0) |->
                   BinValue(histo, start_bin + j - 1, sign, y_account_for_errors)]
    IN  IF y_log THEN SelectSeq(all, LAMBDA v : Sign(v) > 0) ELSE all

\* min(values), max(values) of a non-empty list
RECURSIVE PyMin(_)
PyMin(s) == IF Len(s) = 1 THEN s[1] ELSE Min2(PyMin(SubSeq(s, 1, Len(s) - 1)), s[Len(s)])
RECURSIVE PyMax(_)
PyMax(s) == IF Len(s) = 1 THEN s[1] ELSE Max2(PyMax(SubSeq(s, 1, Len(s) - 1)), s[Len(s)])

Estimate(exc, x_low, x_up, y_low, y_up) ==
    [exc |-> exc, x_low |-> x_low, x_up |-> x_up, y_low |-> y_low, y_up |-> y_up]

find_boundaries_TH1(histo, x_low, x_up, y_low, y_up, x_log, y_log, y_account_for_errors) ==
    LET first == IF IsNone(x_low) THEN find_start(histo, x_log, 1, GetXmin(histo))
                 ELSE <<x_low, 1>>
        last == IF IsNone(x_up) THEN find_end(histo, GetNbinsX(histo))
                ELSE <<x_up, GetNbinsX(histo)>>
        lows == Values(histo, first[2], last[2], -1, y_log, y_account_for_errors)
        ups == Values(histo, first[2], last[2], 1, y_log, y_account_for_errors)
    IN  IF IsNone(y_up) /\ ups = <<>>
        THEN \* max() of an empty list
             Estimate("ValueError", None, None, None, None)
        ELSE Estimate("none", first[1], last[1],
                      IF ~IsNone(y_low) THEN y_low
                      ELSE IF lows # <<>> THEN PyMin(lows) ELSE MIN_LOG_SCALE,
                      IF ~IsNone(y_up) THEN y_up ELSE PyMax(ups))

(***************************************************************************)
(* root_helpers.find_boundaries for lists of TH1 and of objects that are   *)
(* neither 1D nor 2D.  The z-axis only changes with a TH2: z_low, z_up and *)
(* z_log are left at their defaults and the z-results are the seeds.       *)
(***************************************************************************)
Seeds ==
    [exc |-> "none",
     x_low_new |-> FLOAT_MAX, x_up_new |-> FLOAT_MIN,
     y_low_new |-> FLOAT_MAX, y_up_new |-> FLOAT_MIN,
     x_low_new_no_user |-> FLOAT_MAX, x_up_new_no_user |-> FLOAT_MIN,
     y_low_new_no_user |-> FLOAT_MAX, y_up_new_no_user |-> FLOAT_MIN]

\* one pass of the loop over the objects (lines 403-458)
merge_object(m, obj, x_low, x_up, y_low, y_up, x_log, y_log, y_account_for_errors) ==
    IF obj.class # "TH1" THEN m
    ELSE LET est == find_boundaries_TH1(obj, x_low, x_up, y_low, y_up, x_log, y_log,
                                        y_account_for_errors)
             est_no_user == find_boundaries_TH1(obj, None, None, None, None, x_log, y_log,
                                                y_account_for_errors)
         IN  IF est.exc # "none" THEN [m EXCEPT !.exc = est.exc]
             ELSE IF est_no_user.exc # "none" THEN [m EXCEPT !.exc = est_no_user.exc]
             ELSE [exc |-> "none",
                   x_up_new |-> Max2(est.x_up, m.x_up_new),
                   x_low_new |-> Min2(est.x_low, m.x_low_new),
                   y_up_new |-> Max2(est.y_up, m.y_up_new),
                   y_low_new |-> Min2(est.y_low, m.y_low_new),
                   x_up_new_no_user |-> Max2(est_no_user.x_up, m.x_up_new_no_user),
                   x_low_new_no_user |-> Min2(est_no_user.x_low, m.x_low_new_no_user),
                   y_up_new_no_user |-> Max2(est_no_user.y_up, m.y_up_new_no_user),
                   y_low_new_no_user |-> Min2(est_no_user.y_low, m.y_low_new_no_user)]

RECURSIVE merge_objects(_, _, _, _, _, _, _, _, _)
merge_objects(m, objects, x_low, x_up, y_low, y_up, x_log, y_log, y_account_for_errors) ==
    IF objects = <<>> \/ m.exc # "none" THEN m
    ELSE merge_objects(merge_object(m, Head(objects), x_low, x_up, y_low, y_up, x_log, y_log,
                                    y_account_for_errors),
                       Tail(objects), x_low, x_up, y_low, y_up, x_log, y_log,
                       y_account_for_errors)

Boundaries(exc, x_low, x_up, y_low, y_up) ==
    [exc |-> exc, x_low |-> x_low, x_up |-> x_up, y_low |-> y_low, y_up |-> y_up,
     z_low |-> FLOAT_MAX, z_up |-> FLOAT_MIN]

\* y_diff (log10 of the limits on a logarithmic axis)
Diff(up, low, y_log) == IF y_log THEN Sub(Log10(up), Log10(low)) ELSE Sub(up, low)

\* num / den < r for den # 0 and a rational r
RatioLess(num, den, r) ==
    IF Sign(den) > 0 THEN Less(num, Scale(r, den)) ELSE Less(Scale(r, den), num)

\* the legend step (lines 540-571) on the values reached at line 538
reserve_legend(x_low_new, x_up_new, y_low_new, y_up_new, y_low_new_no_user, y_up_new_no_user, y_log, reserve_ndc_top, reserve_ndc_bottom, y_force_limits) ==
    LET y_diff == Diff(y_up_new, y_low_new, y_log)
        tenth == Scale(<<1, 10>>, y_diff)
    IN  IF Truthy(reserve_ndc_top) /\ ~y_force_limits
        THEN LET y_diff_up_user_no_user == Diff(y_up_new, y_up_new_no_user, y_log)
                 r == reserve_ndc_top.a
                 exponent == Add(Add(Log10(y_low_new), Scale(RDiv(ROne, RSub(ROne, r)), y_diff)),
                                 tenth)
             IN  IF y_log /\ Sign(y_up_new) <= 0
                 THEN \* math.log10 of a number that is not positive
                      Boundaries("ValueError", None, None, None, None)
                 ELSE IF Sign(y_diff) = 0
                 THEN Boundaries("ZeroDivisionError", None, None, None, None)
                 ELSE IF ~RatioLess(y_diff_up_user_no_user, y_diff, r)
                 THEN Boundaries("none", x_low_new, x_up_new, y_low_new, y_up_new)
                 ELSE IF r = ROne
                 THEN Boundaries("ZeroDivisionError", None, None, None, None)
                 ELSE IF y_log /\ PowOverflows(exponent)
                 THEN Boundaries("OverflowError", None, None, None, None)
                 ELSE LET y_diff_with_legend == Scale(RDiv(ROne, RSub(ROne, r)), y_diff)
                      IN  Boundaries("none", x_low_new, x_up_new, y_low_new,
                              IF y_log
                              THEN Pow10(Add(Add(Log10(y_low_new), y_diff_with_legend), tenth))
                              ELSE Add(Add(y_low_new, y_diff_with_legend), tenth))
        ELSE IF Truthy(reserve_ndc_bottom) /\ ~y_force_limits
        THEN LET y_diff_low_user_no_user == Diff(y_low_new_no_user, y_low_new, y_log)
                 r == reserve_ndc_bottom.a
                 exponent == Sub(Sub(Log10(y_up_new), Scale(RDiv(ROne, RSub(ROne, r)), y_diff)),
                                 tenth)
             IN  IF y_log /\ Sign(y_up_new) <= 0
                 THEN Boundaries("ValueError", None, None, None, None)
                 ELSE IF Sign(y_diff) = 0
                 THEN Boundaries("ZeroDivisionError", None, None, None, None)
                 ELSE IF ~RatioLess(y_diff_low_user_no_user, y_diff, r)
                 THEN Boundaries("none", x_low_new, x_up_new, y_low_new, y_up_new)
                 ELSE IF r = ROne
                 THEN Boundaries("ZeroDivisionError", None, None, None, None)
                 ELSE IF y_log /\ PowOverflows(exponent)
                 THEN Boundaries("OverflowError", None, None, None, None)
                 ELSE LET y_diff_with_legend == Scale(RDiv(ROne, RSub(ROne, r)), y_diff)
                      IN  Boundaries("none", x_low_new, x_up_new,
                              IF y_log
                              THEN Pow10(Sub(Sub(Log10(y_up_new), y_diff_with_legend), tenth))
                              ELSE Sub(Sub(y_up_new, y_diff_with_legend), tenth),
                              y_up_new)
        ELSE Boundaries("none", x_low_new, x_up_new, y_low_new, y_up_new)

\* "if v <= 0 and is_log: v = MIN_LOG_SCALE" (lines 477-481, 516-538)
clamp_log(v, is_log) == IF is_log /\ Sign(v) <= 0 THEN MIN_LOG_SCALE ELSE v

\* mutant: a user limit that cuts into the objects is kept
reconcile_keeps_user(user, new, no_user, cuts, y_force_limits) == new

\* "if y_up is not None and y_up_new < y_up_new_no_user and not y_force_limits"
\* (lines 460-475); cuts is the comparison of the two values
reconcile(user, new, no_user, cuts, y_force_limits) ==
    IF ~IsNone(user) /\ cuts /\ ~y_force_limits THEN no_user ELSE new

\* "if x_up is not None and x_low is not None and x_up < x_low: swap"
\* (lines 362-374): <<low, up>> after it
swap_limits(low, up) ==
    IF ~IsNone(up) /\ ~IsNone(low) /\ Less(up, low) THEN <<up, low>> ELSE <<low, up>>

\* lines 502-571 on the values reached at line 500
force_limits(m, x, y, y_low_new, y_up_new, y_low_new_no_user, x_log, y_log, reserve_ndc_top, reserve_ndc_bottom, x_force_limits, y_force_limits) ==
    LET x_forced == x_force_limits /\ ~IsNone(x[1]) /\ ~IsNone(x[2])
        y_forced == y_force_limits /\ ~IsNone(y[1]) /\ ~IsNone(y[2])
    IN  reserve_legend(clamp_log(IF x_forced THEN x[1] ELSE m.x_low_new, x_log),
                       IF x_forced THEN x[2] ELSE m.x_up_new,
                       clamp_log(IF y_forced THEN y[1] ELSE y_low_new, y_log),
                       IF y_forced THEN y[2] ELSE y_up_new,
                       y_low_new_no_user, m.y_up_new_no_user,
                       y_log, reserve_ndc_top, reserve_ndc_bottom, y_force_limits)

\* lines 483-571 on the values reached at line 481 (adjust_y_limits stays
\* True without a TH2)
pad_limits(m, x, y, y_low_new, y_up_new, y_low_new_no_user, x_log, y_log, reserve_ndc_top, reserve_ndc_bottom, x_force_limits, y_force_limits) ==
    LET tenth == Scale(<<1, 10>>, Diff(y_up_new, y_low_new, y_log))
        pad_low == IsNone(y[1]) /\ IsNone(reserve_ndc_bottom)
        pad_up == IsNone(y[2]) /\ IsNone(reserve_ndc_top)
    IN  IF /\ y_log
           /\ \/ pad_low /\ PowOverflows(Sub(Log10(y_low_new), tenth))
              \/ pad_up /\ PowOverflows(Add(Log10(y_up_new), tenth))
        THEN Boundaries("OverflowError", None, None, None, None)
        ELSE force_limits(m, x, y,
                          IF pad_low
                          THEN IF y_log THEN Pow10(Sub(Log10(y_low_new), tenth))
                               ELSE Sub(y_low_new, tenth)
                          ELSE y_low_new,
                          IF pad_up
                          THEN IF y_log THEN Pow10(Add(Log10(y_up_new), tenth))
                               ELSE Add(y_up_new, tenth)
                          ELSE y_up_new,
                          y_low_new_no_user, x_log, y_log,
                          reserve_ndc_top, reserve_ndc_bottom, x_force_limits, y_force_limits)

\* lines 460-571 on the boundaries m merged from the objects, with the user
\* limits x and y in order
reconcile_limits(m, x, y, x_log, y_log, reserve_ndc_top, reserve_ndc_bottom, x_force_limits, y_force_limits) ==
    IF m.exc # "none" THEN Boundaries(m.exc, None, None, None, None)
    ELSE pad_limits(m, x, y,
                    \* lines 469-479
                    clamp_log(reconcile(y[1], m.y_low_new, m.y_low_new_no_user,
                                        Less(m.y_low_new_no_user, m.y_low_new),
                                        y_force_limits),
                              y_log),
                    \* lines 460-466
                    reconcile(y[2], m.y_up_new, m.y_up_new_no_user,
                              Less(m.y_up_new, m.y_up_new_no_user), y_force_limits),
                    \* lines 480-481
                    clamp_log(m.y_low_new_no_user, y_log),
                    x_log, y_log, reserve_ndc_top, reserve_ndc_bottom,
                    x_force_limits, y_force_limits)

find_boundaries(objects, x_low, x_up, y_low, y_up, x_log, y_log, reserve_ndc_top, reserve_ndc_bottom, x_force_limits, y_force_limits, y_account_for_errors) ==
    LET x == swap_limits(x_low, x_up)
        y == swap_limits(y_low, y_up)
    IN  reconcile_limits(merge_objects(Seeds, objects, x[1], x[2], y[1], y[2],
                                       x_log, y_log, y_account_for_errors),
                         x, y, x_log, y_log, reserve_ndc_top, reserve_ndc_bottom,
                         x_force_limits, y_force_limits)


(***************************************************************************)
(* ROOTFigure.add_object, PlotSpec.axes with one axis                      *)
(* ("x" or "y") and the keyword limits, and ROOTFigure.create.  Objects    *)
(* are added without a label, so that __create_legends returns without a   *)
(* legend and create passes no reserve_ndc_top / reserve_ndc_bottom.       *)
(***************************************************************************)
AxisIndex(which) == IF which = "x" THEN 1 ELSE IF which = "y" THEN 2 ELSE 3

\* ROOTFigure.add_object -> ROOTPlot.add_object
add_object(fig, root_object) ==
    IF fig._current_plot_spec = 0 THEN fig
    ELSE [fig EXCEPT !._plot_specs[fig._current_plot_spec].objects = Append(@, root_object)]

(***************************************************************************)
(* ROOTPlot: the legend of a region.                                       *)
(***************************************************************************)
\* utilities.map_value
map_value(old_value, old_min, old_max, new_min, new_max) ==
    IF old_min = old_max THEN RDiv(RSub(new_max, new_min), R(2))
    ELSE RAdd(RDiv(RMul(RSub(old_value, old_min), RSub(new_max, new_min)),
                   RSub(old_max, old_min)), new_min)

\* ROOTPlot.__adjust_row_margin, __adjust_column_margin: a margin of the
\* figure relative to the height, the width of the region
adjust_row_margin(plot_spec, margin) ==
    RDiv(margin, RSub(plot_spec._rel_coordinates[4], plot_spec._rel_coordinates[2]))
adjust_column_margin(plot_spec, margin) ==
    RDiv(margin, RSub(plot_spec._rel_coordinates[3], plot_spec._rel_coordinates[1]))

\* ROOTPlot.create, "self.pad.SetLeftMargin(...)" to "self.pad.SetTopMargin(...)":
\* the margins of the TPad of a region
pad_margins(plot_spec) ==
    [left |-> adjust_column_margin(plot_spec, plot_spec._column_margins[1]),
     right |-> adjust_column_margin(plot_spec, plot_spec._column_margins[2]),
     bottom |-> adjust_row_margin(plot_spec, plot_spec._row_margins[1]),
     top |-> adjust_row_margin(plot_spec, plot_spec._row_margins[2])]

\* ROOTPlot.__adjust_legend_coordinates
adjust_legend_coordinates(plot_spec, coords) ==
    LET left == adjust_column_margin(plot_spec, plot_spec._column_margins[1])
        right == RSub(ROne, adjust_column_margin(plot_spec, plot_spec._column_margins[2]))
        bottom == adjust_row_margin(plot_spec, plot_spec._row_margins[1])
        top == RSub(ROne, adjust_row_margin(plot_spec, plot_spec._row_margins[2]))
    IN  <<map_value(coords[1], RZero, ROne, left, right),
          map_value(coords[2], RZero, ROne, bottom, top),
          map_value(coords[3], RZero, ROne, left, right),
          map_value(coords[4], RZero, ROne, bottom, top)>>

\* "word in position" for the position strings of a legend
Words(position) ==
    CASE position = "top right" -> {"top", "right"}
      [] position = "top left" -> {"top", "left"}
      [] position = "bottom right" -> {"bottom", "right"}
      [] position = "bottom left" -> {"bottom", "left"}
      [] position = "left right" -> {"left", "right"}
      [] position = "bottom top" -> {"bottom", "top"}
      [] OTHER -> {}

\* "sum(l is not None for l in self.labels)"
RECURSIVE count_labels(_)
count_labels(labels) ==
    IF labels = <<>> THEN 0
    ELSE (IF Head(labels) # "None" THEN 1 ELSE 0) + count_labels(Tail(labels))

\* "int(n_labels / self._legend_spec.n_columns)", both positive
legend_rows(n_labels, n_columns) == n_labels \div n_columns

ROW_HEIGHT == <<1, 20>>
NoLegend == [made |-> FALSE, n_labels |-> 0, coordinates |-> <<RZero, RZero, RZero, RZero>>]
TLegend(n_labels, coordinates) == [made |-> TRUE, n_labels |-> n_labels, coordinates |-> coordinates]

\* the coordinates and the principal position a position string gives
legend_placement(legend_spec) ==
    LET words == Words(legend_spec.position)
        x == IF "left" \in words THEN <<<<1, 10>>, <<1, 2>>>> ELSE <<<<1, 2>>, ROne>>
        y_low == IF "bottom" \in words THEN <<1, 10>> ELSE <<7, 10>>
        principal == IF legend_spec.principal_position # "None"
                     THEN legend_spec.principal_position
                     ELSE IF "bottom" \in words THEN "bottom" ELSE "top"
    IN  [coordinates |-> <<x[1], y_low, x[2], <<89, 100>>>>, principal_position |-> principal]

\* ROOTPlot.__create_legends for a position given as a string: the legend
\* that is made and the legend settings afterwards
create_legends(plot_spec, labels) ==
    LET legend_spec == plot_spec._legend_spec
        words == Words(legend_spec.position)
        n_labels == legend_rows(count_labels(labels), legend_spec.n_columns)
        placed == legend_placement(legend_spec)
        coordinates == adjust_legend_coordinates(plot_spec, placed.coordinates)
        height == RMul(ROW_HEIGHT, R(n_labels))
    IN  IF count_labels(labels) = 0
        THEN [exc |-> "none", root_legend |-> NoLegend, _legend_spec |-> legend_spec]
        ELSE IF {"left", "right"} \subseteq words \/ {"bottom", "top"} \subseteq words
        THEN [exc |-> "ValueError", root_legend |-> NoLegend, _legend_spec |-> legend_spec]
        ELSE [exc |-> "none",
              root_legend |->
                  TLegend(n_labels,
                          IF placed.principal_position = "bottom"
                          THEN [coordinates EXCEPT ![4] = RAdd(coordinates[2], height)]
                          ELSE [coordinates EXCEPT ![2] = RSub(coordinates[4], height)]),
              _legend_spec |->
                  [legend_spec EXCEPT !.principal_position = placed.principal_position]]

\* "if not self._current_plot_spec: self.logger.warning(...); return" of the
\* proxies add_object, add_text and add_line: the warnings given
proxy_warnings(fig) == IF fig._current_plot_spec = 0 THEN 1 ELSE 0

\* mutant: the text is added to the first region
add_text_to_first(fig, text, x_low, y_low, size) ==
    [fig EXCEPT !._plot_specs[1]._texts = Append(@, TextSpec(text, x_low, y_low, size))]

\* FigureSpec.add_text -> PlotSpec.add_text
add_text(fig, text, x_low, y_low, size) ==
    IF fig._current_plot_spec = 0 THEN fig
    ELSE [fig EXCEPT !._plot_specs[fig._current_plot_spec]._texts =
                         Append(@, TextSpec(text, x_low, y_low, size))]

\* the defaults of PlotSpec.add_line (lines 149-163): <<low, up>>
line_ends(low, up) ==
    IF IsNone(low) /\ IsNone(up) THEN <<Zero, One>>
    ELSE IF IsNone(low) THEN <<up, up>>
    ELSE IF IsNone(up) THEN <<low, low>>
    ELSE <<low, up>>

\* FigureSpec.add_line -> PlotSpec.add_line
add_line(fig, x_low, x_up, y_low, y_up, x_orientation, y_orientation) ==
    IF fig._current_plot_spec = 0 THEN fig
    ELSE [fig EXCEPT !._plot_specs[fig._current_plot_spec]._lines =
                         Append(@, LineSpec(line_ends(x_low, x_up)[1], line_ends(x_low, x_up)[2],
                                            line_ends(y_low, y_up)[1], line_ends(y_low, y_up)[2],
                                            x_orientation, y_orientation))]

\* PlotSpec.axes(which, limits=limits) on region i
plot_axes(fig, i, which, limits) ==
    [fig EXCEPT !._plot_specs[i]._axes[AxisIndex(which)].limits = limits,
                !._plot_specs[i]._axes[AxisIndex(which)].limits_id = 0]

\* "setattr(ax, k, v)" for the attributes limits and is_log; id is the
\* limits_id of the list given as limits
setattr_axis(ax, args, id) ==
    IF args.key = "limits" THEN [ax EXCEPT !.limits = args.limits, !.limits_id = id]
    ELSE IF args.key = "is_log" THEN [ax EXCEPT !.is_log = args.is_log]
    ELSE ax

\* the arguments of FigureSpec.axes(which, key=value), for one axis and one
\* keyword; a key that is no attribute of AxisSpec is warned about and skipped
AxesArgs(which, key, limits, is_log) ==
    [which |-> which, key |-> key, limits |-> limits, is_log |-> is_log]
axes_warnings(args) == IF args.key \in {"limits", "is_log"} THEN 0 ELSE 1

\* FigureSpec.axes -> PlotSpec.axes on the current region
figure_axes(fig, args) ==
    LET a == AxisIndex(args.which)
        stored == [fig EXCEPT !._default_axes[a] =
                                  setattr_axis(@, args, fig._current_plot_spec)]
    IN  IF fig._current_plot_spec = 0 THEN stored
        ELSE [stored EXCEPT !._plot_specs[fig._current_plot_spec]._axes[a] =
                                setattr_axis(@, args, fig._current_plot_spec)]

\* the arguments of FigureSpec.legend(key=value), for one keyword
LegendArgs(key, position, n_columns) ==
    [key |-> key, position |-> position, n_columns |-> n_columns]
legend_warnings(args) == IF args.key \in {"position", "n_columns"} THEN 0 ELSE 1

setattr_legend(legend_spec, args) ==
    IF args.key = "position" THEN [legend_spec EXCEPT !.position = args.position]
    ELSE IF args.key = "n_columns" THEN [legend_spec EXCEPT !.n_columns = args.n_columns]
    ELSE legend_spec

\* FigureSpec.legend -> PlotSpec.legend on the current region
figure_legend(fig, args) ==
    LET stored == [fig EXCEPT !._default_legend = setattr_legend(@, args)]
    IN  IF fig._current_plot_spec = 0 THEN stored
        ELSE [stored EXCEPT !._plot_specs[fig._current_plot_spec]._legend_spec =
                                setattr_legend(@, args)]

\* "self._axes[i].limits[0] = ...; self._axes[i].limits[1] = ..." writes into
\* the list: the default axis that holds the same list shows the same limits
write_through(fig, i) ==
    [fig EXCEPT !._default_axes =
        [a \in 1..3 |->
            IF /\ fig._plot_specs[i]._axes[a].limits_id # 0
               /\ fig._plot_specs[i]._axes[a].limits_id = @[a].limits_id
            THEN [@[a] EXCEPT !.limits = fig._plot_specs[i]._axes[a].limits]
            ELSE @[a]]]

\* mutant: the limits of the sibling are not copied
borrow_limits_keeps_own(fig, ps, share, axis) == ps._axes[axis].limits

\* "self._axes[0].limits[0] = self._share_x._axes[0].limits[0]" and the next
\* line (lines 153-165): the limits of region ps after the copy
borrow_limits(fig, ps, share, axis) ==
    IF share # 0 THEN fig._plot_specs[share]._axes[axis].limits ELSE ps._axes[axis].limits

\* __create_frame from line 168 on: region i, whose limits are borrowed
\* already, takes the boundaries b that find_boundaries returned
create_frame(fig, i, borrowed, b) ==
    IF b.exc # "none"
    THEN [fig |-> write_through([fig EXCEPT !._plot_specs[i] = borrowed], i), exc |-> b.exc]
    ELSE [fig |-> write_through([fig EXCEPT !._plot_specs[i] =
                      [borrowed EXCEPT !._axes[1].limits = <<b.x_low, b.x_up>>,
                                       !._axes[2].limits = <<b.y_low, b.y_up>>,
                                       !._axes[3].limits = <<b.z_low, b.z_up>>]], i),
          exc |-> "none"]

\* ROOTPlot.create with __create_frame, on region i: the figure after it and
\* the exception raised
create_plot(fig, i) ==
    LET ps == fig._plot_specs[i]
        x_limits == borrow_limits(fig, ps, ps._share_x, 1)
        y_limits == borrow_limits(fig, ps, ps._share_y, 2)
    IN  IF ps.objects = <<>> THEN [fig |-> fig, exc |-> "none"]
        ELSE create_frame(fig, i,
                          [ps EXCEPT !.pad = TRUE,
                                     !._axes[1].limits = x_limits,
                                     !._axes[2].limits = y_limits],
                          find_boundaries(ps.objects, x_limits[1], x_limits[2],
                                          y_limits[1], y_limits[2],
                                          ps._axes[1].is_log, ps._axes[2].is_log, None, None,
                                          ps._share_x # 0, ps._share_y # 0,
                                          ps._axes[2].account_for_errors))

\* the loop of ROOTFigure.create from region i on
RECURSIVE create_from(_, _)
create_from(fig, i) ==
    IF i > Len(fig._plot_specs) THEN [fig |-> fig, exc |-> "none"]
    ELSE LET out == create_plot(fig, i)
         IN  IF out.exc # "none" THEN out ELSE create_from(out.fig, i + 1)

create(fig) == create_from(fig, 1)


(***************************************************************************)
(* The program state: one figure, the last call made on it with its        *)
(* outcome, one call of find_boundaries with its result, and one call of   *)
(* make_margins with its result (or the arguments of a make_grid call).    *)
(***************************************************************************)
VARIABLES figure, call, fb_args, fb_result, mm_args, mm_result

vars == <<figure, call, fb_args, fb_result, mm_args, mm_result>>

\* bounds of the exploration: the cells of a grid and the regions of a figure
MaxCells == 4
MaxPlots == 2

\* a call, its outcome and the number of warnings self.logger was given in it
Call(op, cols_rows, kw, exc, ret) ==
    [op |-> op, cols_rows |-> cols_rows, kw |-> kw, exc |-> exc, ret |-> ret,
     warnings |-> 0]
Warned(c, warnings) == [c EXCEPT !.warnings = warnings]

DEFAULT_MARGIN == PyScalar(<<1, 20>>)

Ascending(n) == [i \in 1..n |-> R(i)]

\* The spans passed to define_plot: every span of the grid, and the spans with
\* one defect on one axis (negative low, up beyond the grid, low beyond the
\* grid, negative up, low > up), the other axis being <<0, 0>>.
ValidPairs(n) == {p \in (0..(n - 1)) \X (0..(n - 1)) : p[1] <= p[2]}
DefectPairs(n) ==
    {<<-1, 0>>, <<0, n>>, <<n, n - 1>>, <<0, -1>>}
        \cup (IF n >= 2 THEN {<<n - 1, 0>>} ELSE {})
ValidSpans(fig) ==
    {<<c[1], r[1], c[2], r[2]>> : c \in ValidPairs(fig.n_cols), r \in ValidPairs(fig.n_rows)}
DefectSpans(fig) ==
    {<<c[1], 0, c[2], 0>> : c \in DefectPairs(fig.n_cols)}
        \cup {<<0, r[1], 0, r[2]>> : r \in DefectPairs(fig.n_rows)}
Cells(fig) ==
    ((0..(fig.n_cols - 1)) \X (0..(fig.n_rows - 1)))
        \cup {<<-1, 0>>, <<fig.n_cols, 0>>, <<0, -1>>, <<0, fig.n_rows>>}

NoFB == [k |-> "idle"]
NoMM == [k |-> "idle"]

GridShapes == {g \in (1..MaxCells) \X (1..MaxCells) : g[1] * g[2] <= MaxCells}

InitFigure ==
    \E g \in GridShapes, default_ratios \in BOOLEAN :
        figure = NewFigure(g[1], g[2],
                           IF default_ratios THEN <<>> ELSE Ascending(g[2]),
                           IF default_ratios THEN <<>> ELSE Ascending(g[1]),
                           DEFAULT_MARGIN, DEFAULT_MARGIN)

Init ==
    /\ InitFigure
    /\ call = Call("__init__", <<>>, NoKwargs, "none", 0)
    /\ fb_args = NoFB
    /\ fb_result = NoFB
    /\ mm_args = NoMM
    /\ mm_result = NoMM

\* an uncaught exception ends the caller's script
Running == call.exc = "none" /\ Len(figure._plot_specs) <= MaxPlots

DoDefinePlot(cols_rows, kw) ==
    LET out == define_plot(figure, cols_rows, kw)
    IN  /\ Running
        /\ Len(out.fig._plot_specs) <= MaxPlots
        /\ figure' = out.fig
        /\ call' = Warned(Call("define_plot", cols_rows, kw, out.exc, out.ret),
                           define_plot_warnings(figure, cols_rows))
        /\ UNCHANGED <<fb_args, fb_result, mm_args, mm_result>>

DefinePlotAuto == DoDefinePlot(<<>>, NoKwargs)

DefinePlotCell ==
    \E cell \in Cells(figure) : DoDefinePlot(cell, NoKwargs)

DefinePlotSpan ==
    \E span \in ValidSpans(figure) \cup DefectSpans(figure) : DoDefinePlot(span, NoKwargs)

DefinePlotArity ==
    \E cols_rows \in {<<0>>, <<0, 0, 0>>, <<0, 0, 0, 0, 0>>} :
        DoDefinePlot(cols_rows, NoKwargs)

Next ==
    \/ DefinePlotAuto
    \/ DefinePlotCell
    \/ DefinePlotSpan
    \/ DefinePlotArity

Spec == Init /\ [][Next]_vars

(***************************************************************************)
(* Calls of find_boundaries.  The inputs are drawn at the start: a list of *)
(* objects, the user limits, the log flags, the legend reservations, the   *)
(* force flags and account_for_errors.  With a logarithmic y-axis the      *)
(* positive values of the histograms and of the user limits are powers of  *)
(* ten or FLOAT_MIN, on which log10 is exact.                              *)
(***************************************************************************)
MaxBins == 2

\* <<content, error>> of a bin
BinValues ==
    {<<Zero, Zero>>, <<Num(-1), Zero>>, <<One, Num(9)>>, <<FLOAT_MIN, Zero>>}

RECURSIVE SeqsUpTo(_, _)
SeqsUpTo(S, n) ==
    IF n = 0 THEN {<<>>}
    ELSE LET shorter == SeqsUpTo(S, n - 1)
         IN  shorter \cup {Append(s, x) : s \in shorter, x \in S}

Histograms == {TH1(0, bins) : bins \in SeqsUpTo(BinValues, MaxBins) \ {<<>>}}

\* one histogram alone or followed by a second one, and an object that
\* find_boundaries skips followed by a histogram.  (Without any histogram the
\* padding of the seeds overflows to inf, which the floats above do not have.)
Second == TH1(1, <<<<Num(10), Zero>>>>)
ObjectLists ==
    {<<h>> : h \in Histograms} \cup {<<h, Second>> : h \in Histograms}
        \cup {<<TObject, Second>>}

\* x_low, x_up, x_force_limits
XSettings == {<<None, None, FALSE>>, <<Zero, Num(2), FALSE>>, <<Num(2), One, TRUE>>}
YLows == {None, Num(-2), One}
YUps == {None, Num(-2), One}
Reserves == {None, Lin(<<1, 4>>)}

FBArgs(objects, x, y_low, y_up, x_log, y_log, reserve_ndc_top, reserve_ndc_bottom, y_force_limits, y_account_for_errors) ==
    [k |-> "call", objects |-> objects, x_low |-> x[1], x_up |-> x[2],
     y_low |-> y_low, y_up |-> y_up, x_log |-> x_log, y_log |-> y_log,
     reserve_ndc_top |-> reserve_ndc_top, reserve_ndc_bottom |-> reserve_ndc_bottom,
     x_force_limits |-> x[3], y_force_limits |-> y_force_limits,
     y_account_for_errors |-> y_account_for_errors]

InitFB ==
    /\ figure = NewFigure(1, 1, <<>>, <<>>, DEFAULT_MARGIN, DEFAULT_MARGIN)
    /\ call = Call("find_boundaries", <<>>, NoKwargs, "none", 0)
    /\ \E objects \in ObjectLists, x \in XSettings, y_low \in YLows, y_up \in YUps,
          x_log \in BOOLEAN, y_log \in BOOLEAN,
          reserve_ndc_top \in Reserves, reserve_ndc_bottom \in Reserves,
          y_force_limits \in BOOLEAN, y_account_for_errors \in BOOLEAN :
            fb_args = FBArgs(objects, x, y_low, y_up, x_log, y_log,
                             reserve_ndc_top, reserve_ndc_bottom,
                             y_force_limits, y_account_for_errors)
    /\ fb_result = NoFB
    /\ mm_args = NoMM
    /\ mm_result = NoMM

FindBoundaries ==
    /\ fb_result = NoFB
    /\ fb_result' = find_boundaries(fb_args.objects, fb_args.x_low, fb_args.x_up,
                                    fb_args.y_low, fb_args.y_up,
                                    fb_args.x_log, fb_args.y_log,
                                    fb_args.reserve_ndc_top, fb_args.reserve_ndc_bottom,
                                    fb_args.x_force_limits, fb_args.y_force_limits,
                                    fb_args.y_account_for_errors)
    /\ UNCHANGED <<figure, call, fb_args, mm_args, mm_result>>

NextFB == FindBoundaries

SpecFB == InitFB /\ [][NextFB]_vars

(***************************************************************************)
(* A script on a figure with two cells: regions are defined in the free    *)
(* cells with their log settings and the regions they share axes with,     *)
(* histograms are added to the current region, user limits are set on a    *)
(* region, and the figure is created.  create ends the script.             *)
(***************************************************************************)
MaxObjects == 1

ShareObjects ==
    {TH1(0, <<<<One, Zero>>, <<Num(10), Zero>>>>), TH1(-1, <<<<Num(-1), Zero>>>>)}
ShareLimits == {<<One, Num(10)>>}

InitShare ==
    /\ figure = NewFigure(2, 1, <<>>, <<>>, DEFAULT_MARGIN, DEFAULT_MARGIN)
    /\ call = Call("__init__", <<>>, NoKwargs, "none", 0)
    /\ fb_args = NoFB
    /\ fb_result = NoFB
    /\ mm_args = NoMM
    /\ mm_result = NoMM

Scripting == call.exc = "none" /\ call.op # "create"

ShareDefinePlot ==
    \E x_log \in BOOLEAN, y_log \in BOOLEAN,
       share_x \in 0..Len(figure._plot_specs), share_y \in 0..Len(figure._plot_specs) :
        LET kw == Kwargs({"x_log", "y_log", "share_x", "share_y"},
                         x_log, y_log, FALSE, share_x, share_y, "None")
            out == define_plot(figure, <<>>, kw)
        IN  /\ Scripting
            /\ FreeCells(figure) # {}
            /\ figure' = out.fig
            /\ call' = Warned(Call("define_plot", <<>>, kw, out.exc, out.ret),
                               define_plot_warnings(figure, <<>>))
            /\ UNCHANGED <<fb_args, fb_result, mm_args, mm_result>>

AddObject ==
    \E root_object \in ShareObjects :
        /\ Scripting
        /\ figure._current_plot_spec # 0
        /\ Len(figure._plot_specs[figure._current_plot_spec].objects) < MaxObjects
        /\ figure' = add_object(figure, root_object)
        /\ call' = Call("add_object", <<>>, NoKwargs, "none", 0)
        /\ UNCHANGED <<fb_args, fb_result, mm_args, mm_result>>

PlotAxes ==
    \E i \in 1..Len(figure._plot_specs), which \in {"x", "y"}, limits \in ShareLimits :
        /\ Scripting
        /\ figure' = plot_axes(figure, i, which, limits)
        /\ call' = Call("axes", <<>>, NoKwargs, "none", 0)
        /\ UNCHANGED <<fb_args, fb_result, mm_args, mm_result>>

Create ==
    LET out == create(figure)
    IN  /\ Scripting
        /\ figure' = out.fig
        /\ call' = Call("create", <<>>, NoKwargs, out.exc, 0)
        /\ UNCHANGED <<fb_args, fb_result, mm_args, mm_result>>

NextShare ==
    \/ ShareDefinePlot
    \/ AddObject
    \/ PlotAxes
    \/ Create

SpecShare == InitShare /\ [][NextShare]_vars

(***************************************************************************)
(* A script on a figure of one or two cells: regions are defined in the    *)
(* free cells, the current region is changed, and objects, texts and lines *)
(* are added through the proxies of the figure.                            *)
(***************************************************************************)
ProxyShapes == {<<1, 1>>, <<2, 1>>}
PlotIds == -1..MaxPlots
LineEnds == {None, Zero, One}

InitProxy ==
    /\ \E g \in ProxyShapes :
          figure = NewFigure(g[1], g[2], <<>>, <<>>, DEFAULT_MARGIN, DEFAULT_MARGIN)
    /\ call = Call("__init__", <<>>, NoKwargs, "none", 0)
    /\ fb_args = NoFB
    /\ fb_result = NoFB
    /\ mm_args = NoMM
    /\ mm_result = NoMM

\* the entries the current region holds
Held(field) ==
    IF figure._current_plot_spec = 0 THEN 0
    ELSE Len(figure._plot_specs[figure._current_plot_spec][field])

ProxyDefinePlot ==
    LET out == define_plot(figure, <<>>, NoKwargs)
    IN  /\ Scripting
        /\ FreeCells(figure) # {}
        /\ figure' = out.fig
        /\ call' = Warned(Call("define_plot", <<>>, NoKwargs, out.exc, out.ret),
                           define_plot_warnings(figure, <<>>))
        /\ UNCHANGED <<fb_args, fb_result, mm_args, mm_result>>

ChangePlot ==
    \E plot_id \in PlotIds :
        LET out == change_plot(figure, plot_id)
        IN  /\ Scripting
            /\ figure' = out.fig
            /\ call' = Call("change_plot", <<plot_id>>, NoKwargs, out.exc, out.ret)
            /\ UNCHANGED <<fb_args, fb_result, mm_args, mm_result>>

ProxyAddObject ==
    \E root_object \in ShareObjects :
        /\ Scripting
        /\ Held("objects") < MaxObjects
        /\ figure' = add_object(figure, root_object)
        /\ call' = Warned(Call("add_object", <<>>, NoKwargs, "none", 0),
                           proxy_warnings(figure))
        /\ UNCHANGED <<fb_args, fb_result, mm_args, mm_result>>

AddText ==
    \E text \in {"a", "b"} :
        /\ Scripting
        /\ Held("_texts") < MaxObjects
        /\ figure' = add_text(figure, text, Zero, One, Lin(<<1, 50>>))
        /\ call' = Warned(Call("add_text", <<>>, NoKwargs, "none", 0),
                           proxy_warnings(figure))
        /\ UNCHANGED <<fb_args, fb_result, mm_args, mm_result>>

AddLine ==
    \E x_low \in LineEnds, x_up \in LineEnds :
        /\ Scripting
        /\ Held("_lines") < MaxObjects
        /\ figure' = add_line(figure, x_low, x_up, None, One, "relative", "relative")
        /\ call' = Warned(Call("add_line", <<>>, NoKwargs, "none", 0),
                           proxy_warnings(figure))
        /\ UNCHANGED <<fb_args, fb_result, mm_args, mm_result>>

NextProxy ==
    \/ ProxyDefinePlot
    \/ ChangePlot
    \/ ProxyAddObject
    \/ AddText
    \/ AddLine

SpecProxy == InitProxy /\ [][NextProxy]_vars

(***************************************************************************)
(* Calls of make_margins.  The margins are a number, or a tuple/list of up *)
(* to MaxSlices elements, each a number or a tuple of 0 to 3 numbers; the  *)
(* number of slices is that of the rows or columns of a grid, so at least  *)
(* 1.                                                                      *)
(***************************************************************************)
MaxSlices == 3

MarginValues == {RZero, <<1, 20>>}
MarginScalars == {PyScalar(v) : v \in MarginValues}
MarginTuples ==
    {PyPair(low, high) : low \in MarginValues, high \in MarginValues}
        \cup {PyList(<<>>), PyList(<<PyScalar(RZero)>>),
               PyList(<<PyScalar(RZero), PyScalar(RZero), PyScalar(RZero)>>)}
MarginSpecs ==
    MarginScalars
        \cup {PyList(items) : items \in SeqsUpTo(MarginScalars \cup MarginTuples, MaxSlices)}

InitMargins ==
    /\ figure = NewFigure(1, 1, <<>>, <<>>, DEFAULT_MARGIN, DEFAULT_MARGIN)
    /\ call = Call("make_margins", <<>>, NoKwargs, "none", 0)
    /\ fb_args = NoFB
    /\ fb_result = NoFB
    /\ \E margins \in MarginSpecs, n_slices \in 1..MaxSlices :
          mm_args = [k |-> "call", margins |-> margins, n_slices |-> n_slices]
    /\ mm_result = NoMM

MakeMargins ==
    /\ mm_result = NoMM
    /\ mm_result' = make_margins(mm_args.margins, mm_args.n_slices)
    /\ UNCHANGED <<figure, call, fb_args, fb_result, mm_args>>

NextMargins == MakeMargins

SpecMargins == InitMargins /\ [][NextMargins]_vars

(***************************************************************************)
(* Figures with arbitrary ratios: every vector of width ratios and of      *)
(* height ratios over RatioValues, the vectors of sum zero included.  The  *)
(* script defines one region per cell, each in the lowest free cell.       *)
(***************************************************************************)
RatioValues == {R(-1), RZero, ROne, R(2)}
RatioVectors(n) == [1..n -> RatioValues]

InitRatios ==
    /\ \E g \in GridShapes :
          \E width_ratios \in RatioVectors(g[1]), height_ratios \in RatioVectors(g[2]) :
              figure = NewFigure(g[1], g[2], height_ratios, width_ratios,
                                 DEFAULT_MARGIN, DEFAULT_MARGIN)
    /\ call = Call("__init__", <<>>, NoKwargs, "none", 0)
    /\ fb_args = NoFB
    /\ fb_result = NoFB
    /\ mm_args = NoMM
    /\ mm_result = NoMM

RatiosDefinePlot ==
    LET out == define_plot(figure, <<>>, NoKwargs)
    IN  /\ call.exc = "none"
        /\ FreeCells(figure) # {}
        /\ figure' = out.fig
        /\ call' = Warned(Call("define_plot", <<>>, NoKwargs, out.exc, out.ret),
                           define_plot_warnings(figure, <<>>))
        /\ UNCHANGED <<fb_args, fb_result, mm_args, mm_result>>

NextRatios == RatiosDefinePlot

SpecRatios == InitRatios /\ [][NextRatios]_vars

(***************************************************************************)
(* Figures with margins per column and per row: every slot has its own low *)
(* and high margin, all of them different, or both axes have the default   *)
(* margin.  The script defines regions on the spans of the grid.           *)
(***************************************************************************)
Hundredths(k) == RDiv(R(k), R(100))
SlotMargins(n, base) ==
    PyList([i \in 1..n |-> PyPair(Hundredths(base + 2 * i - 1), Hundredths(base + 2 * i))])
RowBase == 2 * MaxCells

InitSpans ==
    /\ \E g \in GridShapes, default_margins \in BOOLEAN :
          figure = NewFigure(g[1], g[2], <<>>, <<>>,
                             IF default_margins THEN DEFAULT_MARGIN
                             ELSE SlotMargins(g[2], RowBase),
                             IF default_margins THEN DEFAULT_MARGIN
                             ELSE SlotMargins(g[1], 0))
    /\ call = Call("__init__", <<>>, NoKwargs, "none", 0)
    /\ fb_args = NoFB
    /\ fb_result = NoFB
    /\ mm_args = NoMM
    /\ mm_result = NoMM

SpansDefinePlot ==
    \E span \in ValidSpans(figure) :
        LET out == define_plot(figure, span, NoKwargs)
        IN  /\ call.exc = "none"
            /\ Len(figure._plot_specs) < MaxPlots
            /\ figure' = out.fig
            /\ call' = Warned(Call("define_plot", span, NoKwargs, out.exc, out.ret),
                               define_plot_warnings(figure, span))
            /\ UNCHANGED <<fb_args, fb_result, mm_args, mm_result>>

NextSpans == SpansDefinePlot

SpecSpans == InitSpans /\ [][NextSpans]_vars

(***************************************************************************)
(* Calls of make_grid: the grid is given as one int or as a pair           *)
(* (n_cols, n_rows), the four margins of the figure are drawn from         *)
(* GridMarginValues.                                                       *)
(***************************************************************************)
GridMarginValues == {<<1, 20>>, <<2, 25>>}
GridSizes ==
    {PyScalar(R(n)) : n \in {m \in 1..MaxCells : m * m <= MaxCells}}
        \cup {PyPair(R(g[1]), R(g[2])) : g \in GridShapes}

InitGrid ==
    /\ figure = NewFigure(1, 1, <<>>, <<>>, DEFAULT_MARGIN, DEFAULT_MARGIN)
    /\ call = Call("make_grid", <<>>, NoKwargs, "pending", 0)
    /\ fb_args = NoFB
    /\ fb_result = NoFB
    /\ \E n_cols_rows \in GridSizes,
          margin_left \in GridMarginValues, margin_bottom \in GridMarginValues,
          margin_right \in GridMarginValues, margin_top \in GridMarginValues :
            mm_args = [k |-> "make_grid", n_cols_rows |-> n_cols_rows,
                       margin_left |-> margin_left, margin_bottom |-> margin_bottom,
                       margin_right |-> margin_right, margin_top |-> margin_top]
    /\ mm_result = NoMM

MakeGrid ==
    LET out == make_grid(mm_args.n_cols_rows, mm_args.margin_left, mm_args.margin_bottom,
                         mm_args.margin_right, mm_args.margin_top)
    IN  /\ call.exc = "pending"
        /\ figure' = out.fig
        /\ call' = Call("make_grid", <<>>, NoKwargs, out.exc, 0)
        /\ UNCHANGED <<fb_args, fb_result, mm_args, mm_result>>

NextGrid == MakeGrid

SpecGrid == InitGrid /\ [][NextGrid]_vars

(***************************************************************************)
(* A script that sets figure-wide defaults: regions are defined in the     *)
(* free cells of a ROOTFigure, axis and legend settings are made through   *)
(* the figure, a histogram is added to the current region and the figure   *)
(* is created once; the script may go on after create.                     *)
(***************************************************************************)
DefaultsLimits == <<Zero, None>>
AxesCalls ==
    {AxesArgs("x", "limits", DefaultsLimits, FALSE), AxesArgs("y", "limits", DefaultsLimits, FALSE),
     AxesArgs("y", "is_log", NoLimits, TRUE), AxesArgs("x", "colour", NoLimits, FALSE)}
LegendCalls ==
    {LegendArgs("n_columns", "top right", 2), LegendArgs("rows", "top right", 1)}
DefaultsObject == TH1(0, <<<<One, Zero>>, <<Num(10), Zero>>>>)

InitDefaults ==
    /\ \E g \in ProxyShapes :
          figure = NewFigure(g[1], g[2], <<>>, <<>>, DEFAULT_MARGIN, DEFAULT_MARGIN)
    /\ call = Call("__init__", <<>>, NoKwargs, "none", 0)
    /\ fb_args = NoFB
    /\ fb_result = NoFB
    /\ mm_args = NoMM
    /\ mm_result = NoMM

DefaultsDefinePlot ==
    LET out == define_plot(figure, <<>>, NoKwargs)
    IN  /\ call.exc = "none"
        /\ FreeCells(figure) # {}
        /\ figure' = out.fig
        /\ call' = Warned(Call("define_plot", <<>>, NoKwargs, out.exc, out.ret),
                           define_plot_warnings(figure, <<>>))
        /\ UNCHANGED <<fb_args, fb_result, mm_args, mm_result>>

FigureAxes ==
    \E args \in AxesCalls :
        /\ call.exc = "none"
        /\ figure' = figure_axes(figure, args)
        /\ call' = Warned(Call("axes", <<>>, args, "none", 0), axes_warnings(args))
        /\ UNCHANGED <<fb_args, fb_result, mm_args, mm_result>>

FigureLegend ==
    \E args \in LegendCalls :
        /\ call.exc = "none"
        /\ figure' = figure_legend(figure, args)
        /\ call' = Warned(Call("legend", <<>>, args, "none", 0), legend_warnings(args))
        /\ UNCHANGED <<fb_args, fb_result, mm_args, mm_result>>

DefaultsAddObject ==
    /\ call.exc = "none"
    /\ figure._current_plot_spec # 0
    /\ Len(figure._plot_specs[figure._current_plot_spec].objects) < MaxObjects
    /\ figure' = add_object(figure, DefaultsObject)
    /\ call' = Call("add_object", <<>>, NoKwargs, "none", 0)
    /\ UNCHANGED <<fb_args, fb_result, mm_args, mm_result>>

DefaultsCreate ==
    LET out == create(figure)
    IN  /\ call.exc = "none"
        /\ \A i \in 1..Len(figure._plot_specs) : ~figure._plot_specs[i].pad
        /\ figure' = out.fig
        /\ call' = Call("create", <<>>, NoKwargs, out.exc, 0)
        /\ UNCHANGED <<fb_args, fb_result, mm_args, mm_result>>

NextDefaults ==
    \/ DefaultsDefinePlot
    \/ FigureAxes
    \/ FigureLegend
    \/ DefaultsAddObject
    \/ DefaultsCreate

SpecDefaults == InitDefaults /\ [][NextDefaults]_vars


(***************************************************************************)
(* The legend of the region of a 1x1 figure: the legend settings are made  *)
(* through the figure, the labels of the objects of the region are drawn   *)
(* from LabelLists and the legend is created once.                         *)
(***************************************************************************)
MaxLabels == 3
MaxColumns == 3

LabelLists == SeqsUpTo({"None", "h"}, MaxLabels)
LegendPositions == {"top right", "top left", "bottom right", "bottom left", "left right"}

InitLegend ==
    /\ \E position \in LegendPositions, n_columns \in 1..MaxColumns :
          figure = figure_legend(
                       figure_legend(NewFigure(1, 1, <<>>, <<>>, DEFAULT_MARGIN, DEFAULT_MARGIN),
                                     LegendArgs("position", position, 1)),
                       LegendArgs("n_columns", position, n_columns))
    /\ call = Call("__init__", <<>>, NoKwargs, "none", 0)
    /\ fb_args = NoFB
    /\ fb_result = NoFB
    /\ \E labels \in LabelLists : mm_args = [k |-> "create_legends", labels |-> labels]
    /\ mm_result = NoMM

CreateLegends ==
    LET out == create_legends(figure._plot_specs[1], mm_args.labels)
    IN  /\ mm_result = NoMM
        /\ mm_result' = [k |-> "legend", root_legend |-> out.root_legend]
        /\ figure' = [figure EXCEPT !._plot_specs[1]._legend_spec = out._legend_spec]
        /\ call' = Call("create_legends", <<>>, NoKwargs, out.exc, 0)
        /\ UNCHANGED <<fb_args, fb_result, mm_args>>

NextLegend == CreateLegends

SpecLegend == InitLegend /\ [][NextLegend]_vars

(***************************************************************************)
(* The legend step of find_boundaries on its own: the y-limits reached at  *)
(* line 538 are drawn from ReserveValues, in the order                     *)
(* y_low_new <= y_low_new_no_user <= y_up_new_no_user <= y_up_new that     *)
(* limits which are not forced have there, and positive on a logarithmic   *)
(* axis.                                                                   *)
(***************************************************************************)
ReserveValues == {Num(-1), Zero, One, Num(10)}
ReserveFractions == {None, Lin(<<1, 4>>), Lin(<<1, 2>>)}
ReserveLimits ==
    {y \in ReserveValues \X ReserveValues \X ReserveValues \X ReserveValues :
        Leq(y[1], y[2]) /\ Leq(y[2], y[3]) /\ Leq(y[3], y[4])}

InitReserve ==
    /\ figure = NewFigure(1, 1, <<>>, <<>>, DEFAULT_MARGIN, DEFAULT_MARGIN)
    /\ call = Call("find_boundaries", <<>>, NoKwargs, "none", 0)
    /\ \E y \in ReserveLimits, y_log \in BOOLEAN, y_force_limits \in BOOLEAN,
          reserve_ndc_top \in ReserveFractions, reserve_ndc_bottom \in ReserveFractions :
            /\ y_log => Sign(y[1]) > 0
            /\ fb_args = [k |-> "legend", y_low_new |-> y[1], y_low_new_no_user |-> y[2],
                          y_up_new_no_user |-> y[3], y_up_new |-> y[4], y_log |-> y_log,
                          reserve_ndc_top |-> reserve_ndc_top,
                          reserve_ndc_bottom |-> reserve_ndc_bottom,
                          y_force_limits |-> y_force_limits]
    /\ fb_result = NoFB
    /\ mm_args = NoMM
    /\ mm_result = NoMM

ReserveLegend ==
    /\ fb_result = NoFB
    /\ fb_result' = reserve_legend(Zero, One, fb_args.y_low_new, fb_args.y_up_new,
                                   fb_args.y_low_new_no_user, fb_args.y_up_new_no_user,
                                   fb_args.y_log, fb_args.reserve_ndc_top,
                                   fb_args.reserve_ndc_bottom, fb_args.y_force_limits)
    /\ UNCHANGED <<figure, call, fb_args, mm_args, mm_result>>

NextReserve == ReserveLegend

SpecReserve == InitReserve /\ [][NextReserve]_vars

(***************************************************************************)
(* The loop of find_boundaries over the objects on its own: the objects    *)
(* are drawn from ObjectLists, the user limits are in order, as they are   *)
(* after line 374.                                                         *)
(***************************************************************************)
InitMerge ==
    /\ figure = NewFigure(1, 1, <<>>, <<>>, DEFAULT_MARGIN, DEFAULT_MARGIN)
    /\ call = Call("find_boundaries", <<>>, NoKwargs, "none", 0)
    /\ \E objects \in ObjectLists, x \in XSettings, y_low \in YLows, y_up \in YUps,
          x_log \in BOOLEAN, y_log \in BOOLEAN, y_account_for_errors \in BOOLEAN :
            fb_args = [k |-> "merge", objects |-> objects,
                       x_low |-> swap_limits(x[1], x[2])[1],
                       x_up |-> swap_limits(x[1], x[2])[2],
                       y_low |-> swap_limits(y_low, y_up)[1],
                       y_up |-> swap_limits(y_low, y_up)[2],
                       x_log |-> x_log, y_log |-> y_log,
                       y_account_for_errors |-> y_account_for_errors]
    /\ fb_result = NoFB
    /\ mm_args = NoMM
    /\ mm_result = NoMM

MergeObjects ==
    /\ fb_result = NoFB
    /\ fb_result' = merge_objects(Seeds, fb_args.objects, fb_args.x_low, fb_args.x_up,
                                  fb_args.y_low, fb_args.y_up, fb_args.x_log, fb_args.y_log,
                                  fb_args.y_account_for_errors)
    /\ UNCHANGED <<figure, call, fb_args, mm_args, mm_result>>

NextMerge == MergeObjects

SpecMerge == InitMerge /\ [][NextMerge]_vars

(***************************************************************************)
(* Scripts of define_plot calls that all pass validation: regions are      *)
(* defined on spans of the grid and by automatic placement.                *)
(***************************************************************************)
InitPlacement ==
    /\ InitFigure
    /\ call = Call("__init__", <<>>, NoKwargs, "none", 0)
    /\ fb_args = NoFB
    /\ fb_result = NoFB
    /\ mm_args = NoMM
    /\ mm_result = NoMM

PlacementSpan ==
    \E span \in ValidSpans(figure) :
        LET out == define_plot(figure, span, NoKwargs)
        IN  /\ call.exc = "none"
            /\ Len(figure._plot_specs) < MaxPlots
            /\ figure' = out.fig
            /\ call' = Warned(Call("define_plot", span, NoKwargs, out.exc, out.ret),
                               define_plot_warnings(figure, span))
            /\ UNCHANGED <<fb_args, fb_result, mm_args, mm_result>>

PlacementAuto ==
    LET out == define_plot(figure, <<>>, NoKwargs)
    IN  /\ call.exc = "none"
        /\ Len(figure._plot_specs) < MaxPlots
        /\ figure' = out.fig
        /\ call' = Warned(Call("define_plot", <<>>, NoKwargs, out.exc, out.ret),
                           define_plot_warnings(figure, <<>>))
        /\ UNCHANGED <<fb_args, fb_result, mm_args, mm_result>>

NextPlacement == PlacementSpan \/ PlacementAuto

SpecPlacement == InitPlacement /\ [][NextPlacement]_vars

(***************************************************************************)
(* Calls of find_boundaries without space for a legend, on the lists of    *)
(* ObjectLists and on lists of objects that are all skipped.  The lists    *)
(* that are all skipped come with both user limits of the y-axis: without  *)
(* them the padding of the seeds overflows to inf, which the floats above  *)
(* do not have.                                                            *)
(***************************************************************************)
SkippedLists == {<<TObject>>, <<TObject, TObject>>}
AllSkipped(objects) == \A i \in 1..Len(objects) : objects[i].class # "TH1"

InitOrder ==
    /\ figure = NewFigure(1, 1, <<>>, <<>>, DEFAULT_MARGIN, DEFAULT_MARGIN)
    /\ call = Call("find_boundaries", <<>>, NoKwargs, "none", 0)
    /\ \E objects \in ObjectLists \cup SkippedLists, x \in XSettings,
          y_low \in YLows, y_up \in YUps, x_log \in BOOLEAN, y_log \in BOOLEAN,
          y_force_limits \in BOOLEAN, y_account_for_errors \in BOOLEAN :
            /\ AllSkipped(objects) => ~IsNone(y_low) /\ ~IsNone(y_up)
            /\ fb_args = FBArgs(objects, x, y_low, y_up, x_log, y_log, None, None,
                                y_force_limits, y_account_for_errors)
    /\ fb_result = NoFB
    /\ mm_args = NoMM
    /\ mm_result = NoMM

OrderFindBoundaries ==
    /\ fb_result = NoFB
    /\ fb_result' = find_boundaries(fb_args.objects, fb_args.x_low, fb_args.x_up,
                                    fb_args.y_low, fb_args.y_up,
                                    fb_args.x_log, fb_args.y_log,
                                    fb_args.reserve_ndc_top, fb_args.reserve_ndc_bottom,
                                    fb_args.x_force_limits, fb_args.y_force_limits,
                                    fb_args.y_account_for_errors)
    /\ UNCHANGED <<figure, call, fb_args, mm_args, mm_result>>

NextOrder == OrderFindBoundaries

SpecOrder == InitOrder /\ [][NextOrder]_vars

(***************************************************************************)
(* define_plot with keywords on a 1x1 figure, whose region is defined by   *)
(* __init__: every set of the keywords x_log, y_log, z_log, share_x,       *)
(* share_y and title is passed; share_x and share_y are given the region   *)
(* itself.                                                                 *)
(***************************************************************************)
PlotKeys == {"x_log", "y_log", "z_log", "share_x", "share_y", "title"}
PlotKwargs ==
    {Kwargs(keys, x_log, "y_log" \in keys, "z_log" \in keys,
            IF "share_x" \in keys THEN 1 ELSE 0, IF "share_y" \in keys THEN 1 ELSE 0,
            IF "title" \in keys THEN "title" ELSE "None") :
        keys \in SUBSET PlotKeys, x_log \in BOOLEAN}

InitKwargs ==
    /\ figure = NewFigure(1, 1, <<>>, <<>>, DEFAULT_MARGIN, DEFAULT_MARGIN)
    /\ call = Call("__init__", <<>>, NoKwargs, "none", 0)
    /\ fb_args = NoFB
    /\ fb_result = NoFB
    /\ mm_args = NoMM
    /\ mm_result = NoMM

KwargsDefinePlot ==
    \E kw \in PlotKwargs :
        LET out == define_plot(figure, <<>>, kw)
        IN  /\ "x_log" \notin kw.keys => ~kw.x_log
            /\ figure' = out.fig
            /\ call' = Call("define_plot", <<>>, kw, out.exc, out.ret)
            /\ UNCHANGED <<fb_args, fb_result, mm_args, mm_result>>

NextKwargs == KwargsDefinePlot

SpecKwargs == InitKwargs /\ [][NextKwargs]_vars

(***************************************************************************)
(* The margins of the TPad of a region: on a grid of up to MaxSide columns *)
(* and rows with the default margins and ratios one region is defined, on  *)
(* a cell or on two neighbouring cells, and the margins of its TPad are    *)
(* set as ROOTPlot.create sets them.                                       *)
(***************************************************************************)
MaxSide == 11

SurfaceSpans(fig) ==
    LET cells == (0..(fig.n_cols - 1)) \X (0..(fig.n_rows - 1))
    IN  {<<c[1], c[2], c[1], c[2]>> : c \in cells}
            \cup {<<c[1], c[2], c[1] + 1, c[2]>> : c \in {d \in cells : d[1] + 1 < fig.n_cols}}
            \cup {<<c[1], c[2], c[1], c[2] + 1>> : c \in {d \in cells : d[2] + 1 < fig.n_rows}}

InitSurface ==
    /\ \E n_cols \in 1..MaxSide, n_rows \in 1..MaxSide :
          figure = NewFigure(n_cols, n_rows, <<>>, <<>>, DEFAULT_MARGIN, DEFAULT_MARGIN)
    /\ call = Call("__init__", <<>>, NoKwargs, "none", 0)
    /\ fb_args = NoFB
    /\ fb_result = NoFB
    /\ mm_args = NoMM
    /\ mm_result = NoMM

SurfaceDefinePlot ==
    \E span \in SurfaceSpans(figure) :
        LET out == define_plot(figure, span, NoKwargs)
        IN  /\ call.op = "__init__"
            /\ figure' = out.fig
            /\ call' = Warned(Call("define_plot", span, NoKwargs, out.exc, out.ret),
                               define_plot_warnings(figure, span))
            /\ UNCHANGED <<fb_args, fb_result, mm_args, mm_result>>

SetPadMargins ==
    /\ call.op = "define_plot" /\ call.exc = "none"
    /\ mm_result = NoMM
    /\ mm_result' = [k |-> "pad", margins |-> pad_margins(figure._plot_specs[call.ret])]
    /\ UNCHANGED <<figure, call, fb_args, fb_result, mm_args>>

NextSurface == SurfaceDefinePlot \/ SetPadMargins

SpecSurface == InitSurface /\ [][NextSurface]_vars

(***************************************************************************)
(* Properties of the grid layout (specification Spec)                      *)
(***************************************************************************)
IsDefinePlot(c, arity) == c.op = "define_plot" /\ Len(c.cols_rows) = arity
SingleCell(fig) == fig.n_cols = 1 /\ fig.n_rows = 1

\* 0 <= col_low <= col_up < n_cols and 0 <= row_low <= row_up < n_rows
ValidSpan(fig, span) ==
    /\ 0 <= span[1] /\ span[1] <= span[3] /\ span[3] < fig.n_cols
    /\ 0 <= span[2] /\ span[2] <= span[4] /\ span[4] < fig.n_rows

Claimed(fig) == Range(fig.cells_taken)
GridCells(fig) == 0..(fig.n_cols * fig.n_rows - 1)
SpanCells(fig, span) ==
    {row * fig.n_cols + col : col \in span[1]..span[3], row \in span[2]..span[4]}

\* the sum of the first k ratios and of the ratios after index up (0-based)
SumBefore(ratios, k) == RSum(SubSeq(ratios, 1, k))
SumAfter(ratios, up) == RSum(SubSeq(ratios, up + 2, Len(ratios)))

ExpectedRect(fig, span) ==
    LET W == RSum(fig._width_ratios)
        H == RSum(fig._height_ratios)
    IN  <<RDiv(SumBefore(fig._width_ratios, span[1]), W),
          RDiv(SumBefore(fig._height_ratios, span[2]), H),
          RSub(ROne, RDiv(SumAfter(fig._width_ratios, span[3]), W)),
          RSub(ROne, RDiv(SumAfter(fig._height_ratios, span[4]), H))>>

Half == <<1, 2>>

\* C1: after a define_plot call with an explicit span that passes validation,
\* every cell row * n_cols + col of the span is in cells_taken.
C1_SpanCellsClaimed ==
    (IsDefinePlot(call, 4) /\ ValidSpan(figure, call.cols_rows))
        => SpanCells(figure, call.cols_rows) \subseteq Claimed(figure)

\* C2, on a grid larger than 1x1: define_plot accepts a span only if 0 <= col_low <= col_up < n_cols and
\* 0 <= row_low <= row_up < n_rows; every other span is rejected with a
\* ValueError and no region is returned for it.
C2_InvalidSpanRejected ==
    (IsDefinePlot(call, 4) /\ ~SingleCell(figure) /\ ~ValidSpan(figure, call.cols_rows))
        => (call.exc = "ValueError" /\ call.ret = 0)

\* C3: for every valid span the region's relative rectangle is
\* (sum(w[0..col_low)) / W, sum(h[0..row_low)) / H,
\*  1 - sum(w(col_up..n_cols)) / W, 1 - sum(h(row_up..n_rows)) / H), row 0 at the
\* bottom; on a 2x1 grid with default ratios the spans (0,0,0,0) and (1,0,1,0)
\* give (0, 0, 1/2, 1) and (1/2, 0, 1, 1).
C3_RelativeRect ==
    (IsDefinePlot(call, 4) /\ ValidSpan(figure, call.cols_rows))
        => /\ call.exc = "none"
           /\ call.ret \in 1..Len(figure._plot_specs)
           /\ figure._plot_specs[call.ret]._rel_coordinates
                  = ExpectedRect(figure, call.cols_rows)
           /\ (figure.n_cols = 2 /\ figure.n_rows = 1
                   /\ figure._width_ratios = <<ROne, ROne>>)
              => /\ call.cols_rows = <<0, 0, 0, 0>>
                     => figure._plot_specs[call.ret]._rel_coordinates
                            = <<RZero, RZero, Half, ROne>>
                 /\ call.cols_rows = <<1, 0, 1, 0>>
                     => figure._plot_specs[call.ret]._rel_coordinates
                            = <<Half, RZero, ROne, ROne>>

\* a multi-cell span on a grid with unequal ratios, the second region defined
C3_Witness ==
    /\ IsDefinePlot(call, 4) /\ call.exc = "none"
    /\ figure.n_cols = 2 /\ figure.n_rows = 2
    /\ figure._width_ratios = <<R(1), R(2)>>
    /\ call.cols_rows = <<1, 0, 1, 1>>
    /\ call.ret = 2
    /\ figure._plot_specs[2]._rel_coordinates = <<<<1, 3>>, RZero, ROne, ROne>>

\* the lowest cell of the grid that is not claimed
LowestUnclaimed(fig) ==
    CHOOSE c \in GridCells(fig) \ Claimed(fig) :
        \A d \in GridCells(fig) \ Claimed(fig) : c <= d
CellSpan(fig, cell) ==
    <<cell % fig.n_cols, cell \div fig.n_cols, cell % fig.n_cols, cell \div fig.n_cols>>

\* C8: define_plot() without positional arguments on a grid larger than 1x1
\* (with a cell left unclaimed) creates one region on the single cell with the
\* lowest unclaimed index, col = index mod n_cols and row = index div n_cols,
\* claims that cell and makes the region the current one.
C8_AutoPlacement ==
    [][(IsDefinePlot(call', 0) /\ ~SingleCell(figure)
            /\ GridCells(figure) \ Claimed(figure) # {})
        => LET cell == LowestUnclaimed(figure)
               new == Len(figure._plot_specs) + 1
           IN  /\ call'.exc = "none"
               /\ call'.ret = new
               /\ Len(figure'._plot_specs) = new
               /\ SubSeq(figure'._plot_specs, 1, new - 1) = figure._plot_specs
               /\ figure'._current_plot_spec = new
               /\ figure'._plot_specs[new]._rel_coordinates
                      = ExpectedRect(figure, CellSpan(figure, cell))
               /\ figure'.cells_taken = Append(figure.cells_taken, cell)]_vars

\* auto-placement as the second region, on a cell that is not cell 0
C8_Witness ==
    /\ IsDefinePlot(call, 0) /\ call.exc = "none"
    /\ figure.n_cols = 2 /\ figure.n_rows = 2
    /\ call.ret = 2
    /\ figure.cells_taken = <<0, 1>>
    /\ figure._current_plot_spec = 2

AllClaimed(fig) == GridCells(fig) \subseteq Claimed(fig)

\* C9 as stated: define_plot() on any figure whose cells are all claimed raises
\* the "no free cells" error and creates no region.
C9_NoFreeCellsAnyFigure ==
    [][(IsDefinePlot(call', 0) /\ AllClaimed(figure))
        => (call'.exc = "IndexError" /\ figure' = figure)]_vars

\* C9 amended: define_plot() on any figure other than a 1x1 grid whose cells
\* are all claimed raises the "no free cells" error (IndexError) and leaves
\* the figure as it was.
C9_NoFreeCells ==
    [][(IsDefinePlot(call', 0) /\ AllClaimed(figure) /\ ~SingleCell(figure))
        => (call'.exc = "IndexError" /\ call'.ret = 0 /\ figure' = figure)]_vars

C9_Witness ==
    /\ IsDefinePlot(call, 0) /\ call.exc = "IndexError"
    /\ ~SingleCell(figure)
    /\ AllClaimed(figure)
    /\ Len(figure._plot_specs) = 2

\* C10: a 1x1 figure has exactly one region from construction on: the region
\* list has length 1, cells_taken is [0], and every define_plot call returns
\* that region.
C10_SingleRegion ==
    SingleCell(figure)
        => /\ Len(figure._plot_specs) = 1
           /\ figure.cells_taken = <<0>>
           /\ figure._current_plot_spec = 1
           /\ call.op = "define_plot" => (call.exc = "none" /\ call.ret = 1)

\* define_plot on a 1x1 figure with a span that lies outside the grid
C10_Witness ==
    /\ SingleCell(figure)
    /\ IsDefinePlot(call, 4)
    /\ call.cols_rows = <<0, 0, 1, 0>>
    /\ call.ret = 1

\* C11 as stated: on every figure, a 1x1 figure included, define_plot with a
\* number of positional arguments other than 0, 2 or 4 raises ValueError and
\* defines no region.
C11_BadArityRejectedAnyFigure ==
    [][(call'.op = "define_plot" /\ Len(call'.cols_rows) \notin {0, 2, 4})
        => (call'.exc = "ValueError" /\ call'.ret = 0 /\ figure' = figure)]_vars

\* C11 amended: on every figure other than a 1x1 grid, define_plot with a
\* number of positional arguments other than 0, 2 or 4 raises ValueError,
\* returns no region and leaves the figure as it was.
C11_BadArityRejected ==
    [][(call'.op = "define_plot" /\ Len(call'.cols_rows) \notin {0, 2, 4}
            /\ ~SingleCell(figure))
        => (call'.exc = "ValueError" /\ call'.ret = 0 /\ figure' = figure)]_vars

\* a call with three arguments on a figure that has a region already
C11_Witness ==
    /\ IsDefinePlot(call, 3) /\ call.exc = "ValueError"
    /\ ~SingleCell(figure)
    /\ Len(figure._plot_specs) = 1

NoDuplicates(cells) == Cardinality(Range(cells)) = Len(cells)
\* the span of a call define_plot(col, row) or define_plot(col_low, row_low,
\* col_up, row_up)
AsSpan(c) ==
    IF Len(c.cols_rows) = 2
    THEN <<c.cols_rows[1], c.cols_rows[2], c.cols_rows[1], c.cols_rows[2]>>
    ELSE c.cols_rows
ClaimsSpan(fig, c) ==
    /\ c.op = "define_plot" /\ Len(c.cols_rows) \in {2, 4}
    /\ ~SingleCell(fig)
    /\ ValidSpan(fig, AsSpan(c))
OneCell(span) == span[1] = span[3] /\ span[2] = span[4]

\* C19: cells_taken never holds a cell twice.  A define_plot call on a cell
\* or a span of the grid raises nothing and adds its region, whatever is
\* claimed already; it warns once and leaves cells_taken as it was when it
\* names one cell that is already claimed, and does not warn when none of its
\* cells is claimed.
C19_OverlapWarns ==
    /\ []NoDuplicates(figure.cells_taken)
    /\ [][ClaimsSpan(figure, call') =>
            /\ call'.exc = "none"
            /\ Len(figure'._plot_specs) = Len(figure._plot_specs) + 1
            /\ (SpanCells(figure, AsSpan(call')) \cap Claimed(figure) = {})
                   => call'.warnings = 0
            /\ (/\ OneCell(AsSpan(call'))
                /\ SpanCells(figure, AsSpan(call')) \subseteq Claimed(figure))
                   => /\ call'.warnings = 1
                      /\ figure'.cells_taken = figure.cells_taken]_vars

\* cell 1 of a grid was claimed a second time: one warning, one entry in
\* cells_taken, two regions
C19_Witness ==
    /\ ClaimsSpan(figure, call) /\ call.cols_rows = <<1, 0>>
    /\ call.exc = "none" /\ call.warnings = 1
    /\ figure.cells_taken = <<1>>
    /\ Len(figure._plot_specs) = 2

(***************************************************************************)
(* Properties of the relative coordinates (specification SpecRatios)       *)
(***************************************************************************)
\* every cell of the grid holds its own region, region k + 1 in cell k
OneRegionPerCell(fig) ==
    /\ Len(fig._plot_specs) = fig.n_cols * fig.n_rows
    /\ fig.cells_taken = [k \in 1..(fig.n_cols * fig.n_rows) |-> k - 1]

RegionAt(fig, col, row) == fig._plot_specs[row * fig.n_cols + col + 1]
Width(ps) == RSub(ps._rel_coordinates[3], ps._rel_coordinates[1])
Height(ps) == RSub(ps._rel_coordinates[4], ps._rel_coordinates[2])

\* C16: whatever the ratios, once every cell holds its single-cell region, the
\* widths (right - left) of the regions along each row sum to 1 and the
\* heights (top - bottom) of the regions along each column sum to 1.
C16_SizesSumToOne ==
    OneRegionPerCell(figure) =>
        /\ \A row \in 0..(figure.n_rows - 1) :
              RSum([c \in 1..figure.n_cols |-> Width(RegionAt(figure, c - 1, row))]) = ROne
        /\ \A col \in 0..(figure.n_cols - 1) :
              RSum([r \in 1..figure.n_rows |-> Height(RegionAt(figure, col, r - 1))]) = ROne

\* a 2x2 grid with unequal ratios, a negative one among them, holds its four
\* regions
C16_Witness ==
    /\ OneRegionPerCell(figure)
    /\ figure._width_ratios = <<R(2), R(-1)>>
    /\ figure._height_ratios = <<ROne, R(2)>>
    /\ Width(RegionAt(figure, 0, 1)) = R(2)
    /\ Height(RegionAt(figure, 1, 1)) = <<2, 3>>

(***************************************************************************)
(* Properties of the margins of a region (specification SpecSpans)         *)
(***************************************************************************)
\* entry side (1 low, 2 high) of the margins of slot (counted from 0)
SlotMargin(margins, slot, side) == margins[slot + 1].items[side].v

\* C17: the region define_plot(col_low, row_low, col_up, row_up) returns has
\* the column margins (low of column col_low, high of column col_up) and the
\* row margins (low of row row_low, high of row row_up) of the figure; the
\* margins of no other column or row enter.
C17_OutwardMargins ==
    (IsDefinePlot(call, 4) /\ call.exc = "none") =>
        LET ps == figure._plot_specs[call.ret]
            span == call.cols_rows
        IN  /\ ps._column_margins =
                    <<SlotMargin(figure._column_margins, span[1], 1),
                      SlotMargin(figure._column_margins, span[3], 2)>>
            /\ ps._row_margins =
                    <<SlotMargin(figure._row_margins, span[2], 1),
                      SlotMargin(figure._row_margins, span[4], 2)>>

\* a region over three columns whose margins all differ: it has the low
\* margin of the first and the high margin of the third
C17_Witness ==
    /\ IsDefinePlot(call, 4) /\ call.exc = "none"
    /\ call.cols_rows = <<0, 0, 2, 0>>
    /\ figure._column_margins = SlotMargins(figure.n_cols, 0).items
    /\ figure._plot_specs[call.ret]._column_margins = <<Hundredths(1), Hundredths(6)>>
    /\ figure._plot_specs[call.ret]._row_margins =
           <<Hundredths(RowBase + 1), Hundredths(RowBase + 2)>>

(***************************************************************************)
(* Properties of make_grid (specification SpecGrid)                        *)
(***************************************************************************)
GridMade == call.op = "make_grid" /\ call.exc = "none"

\* C20: make_grid leaves one single-cell region per cell, region
\* row * n_cols + col in cell (col, row); a region above the bottom row shares
\* its x-axis with the bottom-row region of its column, a region right of the
\* first column shares its y-axis with the first-column region of its row,
\* bottom-row regions share no x-axis and first-column regions no y-axis.
C20_GridSharing ==
    GridMade =>
        /\ Len(figure._plot_specs) = figure.n_cols * figure.n_rows
        /\ \A col \in 0..(figure.n_cols - 1), row \in 0..(figure.n_rows - 1) :
              /\ RegionAt(figure, col, row)._rel_coordinates =
                     ExpectedRect(figure, <<col, row, col, row>>)
              /\ RegionAt(figure, col, row)._share_x = (IF row = 0 THEN 0 ELSE col + 1)
              /\ RegionAt(figure, col, row)._share_y =
                     (IF col = 0 THEN 0 ELSE row * figure.n_cols + 1)

(***************************************************************************)
(* Properties of change_plot and of the proxies (SpecProxy).               *)
(***************************************************************************)
\* C12: change_plot(id) with 0 <= id < number of regions makes the region
\* defined id-th current and returns it; with a negative id it returns the
\* current region and changes nothing, or raises if there is none; with
\* id >= number of regions it raises and changes nothing.
C12_ChangePlot ==
    [][call'.op = "change_plot" =>
        LET id == call'.cols_rows[1]
            n == Len(figure._plot_specs)
        IN  /\ (0 <= id /\ id < n) =>
                   /\ call'.exc = "none" /\ call'.ret = id + 1
                   /\ figure' = [figure EXCEPT !._current_plot_spec = id + 1]
            /\ (id < 0 /\ figure._current_plot_spec # 0) =>
                   /\ call'.exc = "none" /\ call'.ret = figure._current_plot_spec
                   /\ figure' = figure
            /\ (id < 0 /\ figure._current_plot_spec = 0) =>
                   (call'.exc = "ValueError" /\ figure' = figure)
            /\ id >= n => (call'.exc = "ValueError" /\ figure' = figure)]_vars

\* change_plot(0) on a figure whose second region was the current one
C12_Witness ==
    /\ call.op = "change_plot" /\ call.cols_rows = <<0>> /\ call.exc = "none"
    /\ Len(figure._plot_specs) = 2
    /\ figure._current_plot_spec = 1

ProxyField(op) ==
    IF op = "add_object" THEN "objects" ELSE IF op = "add_text" THEN "_texts" ELSE "_lines"

\* C13: add_object, add_text and add_line of the figure, called while no
\* region is current, give one warning, raise nothing and leave the figure
\* unchanged; called with a current region they append exactly one entry to
\* that region and leave everything else unchanged.
C13_Proxies ==
    [][call'.op \in {"add_object", "add_text", "add_line"} =>
        LET c == figure._current_plot_spec
            field == ProxyField(call'.op)
        IN  /\ call'.exc = "none"
            /\ c = 0 => (call'.warnings = 1 /\ figure' = figure)
            /\ c # 0 =>
                   /\ call'.warnings = 0
                   /\ Len(figure'._plot_specs[c][field]) = Len(figure._plot_specs[c][field]) + 1
                   /\ SubSeq(figure'._plot_specs[c][field], 1, Len(figure._plot_specs[c][field]))
                          = figure._plot_specs[c][field]
                   /\ figure' = [figure EXCEPT !._plot_specs[c][field] =
                                                  figure'._plot_specs[c][field]]]_vars

\* a text added to the first of two regions, made current by change_plot
C13_Witness ==
    /\ call.op = "add_text"
    /\ Len(figure._plot_specs) = 2
    /\ figure._current_plot_spec = 1
    /\ Len(figure._plot_specs[1]._texts) = 1
    /\ Len(figure._plot_specs[2]._texts) = 0

\* a proxy called before any region was defined
C13_WitnessNoRegion ==
    /\ call.op = "add_line" /\ call.warnings = 1
    /\ figure._plot_specs = <<>>

(***************************************************************************)
(* Properties of make_margins (SpecMargins).                               *)
(***************************************************************************)
MarginsReturned == mm_result # NoMM
IsNumberPair(x) ==
    /\ IsIterable(x) /\ Len(x.items) = 2
    /\ ~IsIterable(x.items[1]) /\ ~IsIterable(x.items[2])
HasTwoEntries(x) == IsIterable(x) /\ Len(x.items) = 2

\* C14: make_margins(spec, n) returns n copies of (s, s) when spec is a
\* number s, n copies of the pair when spec is one pair of numbers, and the
\* given sequence when spec is a sequence of n pairs of numbers.
C14_MakeMargins ==
    MarginsReturned =>
        LET spec == mm_args.margins
            n == mm_args.n_slices
        IN  /\ ~IsIterable(spec) =>
                   mm_result = Returns([i \in 1..n |-> PyPair(spec.v, spec.v)])
            /\ IsNumberPair(spec) => mm_result = Returns([i \in 1..n |-> spec])
            /\ (/\ IsIterable(spec) /\ Len(spec.items) = n
                /\ \A i \in 1..n : IsNumberPair(spec.items[i]))
                   => mm_result = Returns(spec.items)

\* one pair of numbers spread over three slices
C14_Witness ==
    /\ MarginsReturned
    /\ mm_args.margins = PyPair(RZero, <<1, 20>>)
    /\ mm_args.n_slices = 3
    /\ mm_result = Returns(<<mm_args.margins, mm_args.margins, mm_args.margins>>)

\* C15: make_margins(spec, n) raises ValueError for every sequence whose
\* number of slots differs from n, the empty sequence and a flat sequence of
\* more than two numbers included, and for every sequence with an element
\* that does not have exactly 2 entries; it never returns a sequence of a
\* length other than n.
C15_MismatchRejected ==
    MarginsReturned =>
        LET spec == mm_args.margins
            n == mm_args.n_slices
        IN  /\ (/\ IsIterable(spec) /\ ~IsNumberPair(spec)
                /\ \/ Len(spec.items) # n
                   \/ \E i \in 1..Len(spec.items) : ~HasTwoEntries(spec.items[i]))
                   => mm_result.exc = "ValueError"
            /\ mm_result.exc = "none" => Len(mm_result.val) = n

(***************************************************************************)
(* Properties of ROOTFigure.create with shared axes (SpecShare).           *)
(***************************************************************************)
Created == call.op = "create" /\ call.exc = "none"
Regions == 1..Len(figure._plot_specs)
Limits(i, axis) == figure._plot_specs[i]._axes[axis].limits
Share(i, axis) ==
    IF axis = 1 THEN figure._plot_specs[i]._share_x ELSE figure._plot_specs[i]._share_y
HoldsObjects(i) == figure._plot_specs[i].objects # <<>>
Ordered(limits) ==
    /\ ~IsNone(limits[1]) /\ ~IsNone(limits[2])
    /\ ~Less(limits[2], limits[1])

\* C4 as stated: after create(), a region B defined with share_x=A (share_y=A)
\* has the x-limits (y-limits) of A, whatever objects, user limits and log
\* settings B has.
C4_SharedLimitsAlways ==
    Created =>
        \A b \in Regions, axis \in {1, 2} :
            Share(b, axis) # 0 => Limits(b, axis) = Limits(Share(b, axis), axis)

\* C4 amended: after a create() that returns, a region B defined with
\* share_x=A (share_y=A) has exactly the x-limits (y-limits) of A, whatever
\* user limits B has, provided that B holds at least one object, that both
\* limits of A are set (resolved from its objects, or given by the user) and
\* ordered (low <= up), and that B's axis is linear or A's lower limit is
\* positive.
C4_SharedLimits ==
    Created =>
        \A b \in Regions, axis \in {1, 2} :
            LET a == Share(b, axis)
            IN  (/\ a # 0
                 /\ HoldsObjects(b)
                 /\ Ordered(Limits(a, axis))
                 /\ \/ ~figure._plot_specs[b]._axes[axis].is_log
                    \/ Sign(Limits(a, axis)[1]) > 0)
                => Limits(b, axis) = Limits(a, axis)

\* region 2 shares the x-axis of region 1 and not its y-axis; its own
\* histogram covers [-1, 0] and it ends with region 1's x-limits [0, 2]
C4_Witness ==
    /\ Created
    /\ Len(figure._plot_specs) = 2
    /\ figure._plot_specs[2]._share_x = 1
    /\ figure._plot_specs[2]._share_y = 0
    /\ figure._plot_specs[1].objects = <<TH1(0, <<<<One, Zero>>, <<Num(10), Zero>>>>)>>
    /\ figure._plot_specs[2].objects = <<TH1(-1, <<<<Num(-1), Zero>>>>)>>
    /\ Limits(1, 1) = <<Zero, Num(2)>>
    /\ Limits(2, 1) = <<Zero, Num(2)>>
    /\ Limits(2, 2) # Limits(1, 2)

(***************************************************************************)
(* Properties of find_boundaries (SpecFB).                                 *)
(***************************************************************************)
Returned == fb_result # NoFB /\ fb_result.exc = "none"
Histos == {fb_args.objects[i] : i \in {j \in 1..Len(fb_args.objects) :
                                          fb_args.objects[j].class = "TH1"}}
Bins(h) == 1..Len(h.bins)
NonEmpty(h) == {i \in Bins(h) : h.bins[i][1] # Zero}
\* the bins from the first to the last bin with content (all bins if none has)
Span(h) ==
    IF NonEmpty(h) = {} THEN Bins(h)
    ELSE {i \in Bins(h) : \E lo \in NonEmpty(h), hi \in NonEmpty(h) : lo <= i /\ i <= hi}
\* what a bin reaches up to: content + error, or content without the errors
Top(h, i) ==
    IF fb_args.y_account_for_errors THEN Add(h.bins[i][1], h.bins[i][2]) ELSE h.bins[i][1]
IsDataMax(v) ==
    /\ \E h \in Histos : \E i \in Span(h) : v = Top(h, i)
    /\ \A h \in Histos : \A i \in Span(h) : Leq(Top(h, i), v)

\* C5, without a legend reservation at the top and with linear axes: when the
\* user's y_up is smaller than the data maximum of the objects and
\* y_force_limits is False, the returned y_up equals the data maximum.
C5_UserUpOverridden ==
    (/\ Returned
     /\ ~fb_args.y_force_limits /\ ~fb_args.x_log /\ ~fb_args.y_log
     /\ IsNone(fb_args.reserve_ndc_top)
     /\ ~IsNone(fb_args.y_up))
        => \A h \in Histos : \A i \in Span(h) :
              (IsDataMax(Top(h, i)) /\ Less(fb_args.y_up, Top(h, i)))
                  => fb_result.y_up = Top(h, i)

\* C6 as stated: with account_for_errors=True the returned y-range contains
\* every bin content of every histogram, for every choice of user limits,
\* force flags, log flags and legend reservation.
C6_ContentsInsideAlways ==
    (Returned /\ fb_args.y_account_for_errors)
        => \A h \in Histos : \A i \in Bins(h) :
              /\ Leq(h.bins[i][1], fb_result.y_up)
              /\ Leq(fb_result.y_low, h.bins[i][1])

\* C6 amended: with account_for_errors=True, y_force_limits=False and linear
\* x- and y-axes, the returned y-range contains the content of every bin
\* between the first and the last non-empty bin of every histogram, for
\* every choice of user limits and legend reservation.
C6_ContentsInside ==
    (/\ Returned /\ fb_args.y_account_for_errors
     /\ ~fb_args.y_force_limits /\ ~fb_args.x_log /\ ~fb_args.y_log)
        => \A h \in Histos : \A i \in Span(h) :
              /\ Leq(h.bins[i][1], fb_result.y_up)
              /\ Leq(fb_result.y_low, h.bins[i][1])

\* user limits that cut into the contents from both sides, space reserved
\* for a legend at the top, and a bin with an error
C6_Witness ==
    /\ Returned /\ fb_args.y_account_for_errors
    /\ ~fb_args.y_force_limits /\ ~fb_args.x_log /\ ~fb_args.y_log
    /\ fb_args.objects = <<TH1(0, <<<<Num(-1), Zero>>, <<One, Num(9)>>>>)>>
    /\ fb_args.y_low = One /\ fb_args.y_up = One
    /\ fb_args.reserve_ndc_top = Lin(<<1, 4>>)
    /\ Less(Num(10), fb_result.y_up)
    /\ Less(fb_result.y_low, Num(-1))

\* C7: for all inputs with y_log=True the returned y_low is strictly
\* greater than 0.
C7_LogFloor ==
    (Returned /\ fb_args.y_log) => Sign(fb_result.y_low) > 0

\* the only object of the call, the first and the last of its bins with
\* content, and the smallest and the largest content between the two
Single == fb_args.objects[1]
FirstNonZero(h) == CHOOSE i \in NonEmpty(h) : \A j \in NonEmpty(h) : i <= j
LastNonZero(h) == CHOOSE i \in NonEmpty(h) : \A j \in NonEmpty(h) : j <= i
Contents(h) == {h.bins[i][1] : i \in Span(h)}
MinContent(h) == CHOOSE v \in Contents(h) : \A w \in Contents(h) : Leq(v, w)
MaxContent(h) == CHOOSE v \in Contents(h) : \A w \in Contents(h) : Leq(w, v)
Tenth(x) == Scale(<<1, 10>>, x)

\* one histogram with a non-zero bin, no user limits, linear axes, no legend
\* reservation, account_for_errors=False
PlainSingleHistogram ==
    /\ Returned
    /\ Len(fb_args.objects) = 1 /\ Single.class = "TH1" /\ NonEmpty(Single) # {}
    /\ IsNone(fb_args.x_low) /\ IsNone(fb_args.x_up)
    /\ IsNone(fb_args.y_low) /\ IsNone(fb_args.y_up)
    /\ ~fb_args.x_log /\ ~fb_args.y_log
    /\ IsNone(fb_args.reserve_ndc_top) /\ IsNone(fb_args.reserve_ndc_bottom)
    /\ ~fb_args.y_account_for_errors

\* C18: for such a call the x-range goes from the low edge of the first
\* non-zero bin to the upper edge of the last non-zero bin, and the y-range
\* is [m - 0.1*(M - m), M + 0.1*(M - m)], m and M the minimum and the maximum
\* bin content between those two bins.
C18_SingleHistogramRange ==
    PlainSingleHistogram =>
        LET m == MinContent(Single)
            M == MaxContent(Single)
        IN  /\ fb_result.x_low = GetBinLowEdge(Single, FirstNonZero(Single))
            /\ fb_result.x_up = GetBinUpEdge(Single, LastNonZero(Single))
            /\ fb_result.y_low = Sub(m, Tenth(Sub(M, m)))
            /\ fb_result.y_up = Add(M, Tenth(Sub(M, m)))


(***************************************************************************)
(* Figure-wide defaults (specification SpecDefaults)                       *)
(***************************************************************************)
AxisSettings(ax) == [limits |-> ax.limits, is_log |-> ax.is_log]
RegionSettings(plot_spec) ==
    [axes |-> [a \in 1..3 |-> AxisSettings(plot_spec._axes[a])],
     legend |-> plot_spec._legend_spec]
DefaultSettings(fig) ==
    [axes |-> [a \in 1..3 |-> AxisSettings(fig._default_axes[a])],
     legend |-> fig._default_legend]

\* the settings after the call c of Figure.axes or Figure.legend is applied
Applied(settings, c) ==
    IF c.op = "axes" /\ c.kw.key = "limits"
    THEN [settings EXCEPT !.axes[AxisIndex(c.kw.which)].limits = c.kw.limits]
    ELSE IF c.op = "axes" /\ c.kw.key = "is_log"
    THEN [settings EXCEPT !.axes[AxisIndex(c.kw.which)].is_log = c.kw.is_log]
    ELSE IF c.op = "legend" /\ c.kw.key = "position"
    THEN [settings EXCEPT !.legend.position = c.kw.position]
    ELSE IF c.op = "legend" /\ c.kw.key = "n_columns"
    THEN [settings EXCEPT !.legend.n_columns = c.kw.n_columns]
    ELSE settings

\* a call of Figure.axes or Figure.legend sets the defaults and the current
\* region and leaves every other region as it is
SettingsApplied ==
    call'.op \in {"axes", "legend"} =>
        /\ DefaultSettings(figure') = Applied(DefaultSettings(figure), call')
        /\ Len(figure'._plot_specs) = Len(figure._plot_specs)
        /\ \A i \in 1..Len(figure._plot_specs) :
              RegionSettings(figure'._plot_specs[i]) =
                  IF i = figure._current_plot_spec
                  THEN Applied(RegionSettings(figure._plot_specs[i]), call')
                  ELSE RegionSettings(figure._plot_specs[i])

\* a region that is defined starts with the defaults of the figure
RegionCopiesDefaults ==
    Len(figure'._plot_specs) > Len(figure._plot_specs) =>
        RegionSettings(figure'._plot_specs[Len(figure'._plot_specs)]) = DefaultSettings(figure)

\* the defaults are the settings made through Figure.axes and Figure.legend:
\* no other call changes them
DefaultsKept ==
    call'.op \notin {"axes", "legend"} => DefaultSettings(figure') = DefaultSettings(figure)

\* C21: the settings made through Figure.axes and Figure.legend are applied to
\* the defaults and to the current region only, they stay the defaults of
\* the figure until the next such call, and every region defined afterwards
\* starts with them.
C21_DefaultsCarried == [][SettingsApplied /\ RegionCopiesDefaults /\ DefaultsKept]_vars

\* the parts of C21 that concern the calls of Figure.axes, Figure.legend and
\* define_plot themselves
C21_HoldsWithoutCreate == [][SettingsApplied /\ RegionCopiesDefaults]_vars

(***************************************************************************)
(* The legend of a region (specification SpecLegend)                       *)
(***************************************************************************)
LegendCreated == call.op = "create_legends" /\ call.exc = "none" /\ mm_result.root_legend.made

Labelled == count_labels(mm_args.labels)
Columns == figure._plot_specs[1]._legend_spec.n_columns
Ceil(n, d) == (n + d - 1) \div d
LegendHeight ==
    RSub(mm_result.root_legend.coordinates[4], mm_result.root_legend.coordinates[2])

\* C22: a legend is sized for ceil(n_labels / n_columns) rows, n_labels the
\* number of labels that are not None, its height is that number of rows
\* times the height of one row, and a legend with a label has at least one row.
C22_LegendRows ==
    LegendCreated =>
        /\ mm_result.root_legend.n_labels = Ceil(Labelled, Columns)
        /\ LegendHeight = RMul(ROW_HEIGHT, R(Ceil(Labelled, Columns)))
        /\ mm_result.root_legend.n_labels >= 1

\* what the code does instead: the number of rows is rounded down
C22_RowsRoundedDown ==
    LegendCreated =>
        /\ mm_result.root_legend.n_labels = Labelled \div Columns
        /\ LegendHeight = RMul(ROW_HEIGHT, R(Labelled \div Columns))

\* a legend of one label in two columns
C22_OneLabelTwoColumns == LegendCreated /\ Labelled = 1 /\ Columns = 2

(***************************************************************************)
(* The space reserved for the legend (specification SpecReserve)           *)
(***************************************************************************)
ReserveReturned == fb_result # NoFB /\ fb_result.exc = "none"
RangeBefore == Diff(fb_args.y_up_new, fb_args.y_low_new, fb_args.y_log)
RangeAfter == Diff(fb_result.y_up, fb_result.y_low, fb_args.y_log)

\* space is reserved at the top, the limits are not forced and the space
\* above the objects is smaller than the fraction asked for
TopTooSmall ==
    /\ Truthy(fb_args.reserve_ndc_top) /\ ~fb_args.y_force_limits
    /\ RatioLess(Diff(fb_args.y_up_new, fb_args.y_up_new_no_user, fb_args.y_log),
                 RangeBefore, fb_args.reserve_ndc_top.a)
BottomTooSmall ==
    /\ ~Truthy(fb_args.reserve_ndc_top)
    /\ Truthy(fb_args.reserve_ndc_bottom) /\ ~fb_args.y_force_limits
    /\ RatioLess(Diff(fb_args.y_low_new_no_user, fb_args.y_low_new, fb_args.y_log),
                 RangeBefore, fb_args.reserve_ndc_bottom.a)

\* C23: when the space at the top (at the bottom) is too small, the y-axis is
\* extended at that end so that the space between the former limit and the
\* new one is exactly the fraction asked for of the new range, in log10 on a
\* logarithmic axis.
C23_ExactHeadroom ==
    ReserveReturned =>
        /\ TopTooSmall =>
              /\ fb_result.y_low = fb_args.y_low_new
              /\ Diff(fb_result.y_up, fb_args.y_up_new, fb_args.y_log) =
                     Scale(fb_args.reserve_ndc_top.a, RangeAfter)
        /\ BottomTooSmall =>
              /\ fb_result.y_up = fb_args.y_up_new
              /\ Diff(fb_args.y_low_new, fb_result.y_low, fb_args.y_log) =
                     Scale(fb_args.reserve_ndc_bottom.a, RangeAfter)

\* what the code does instead: the new range is the former one divided by
\* (1 - fraction) plus a tenth of the former one
C23_HeadroomAndTenth ==
    ReserveReturned =>
        /\ TopTooSmall =>
              /\ fb_result.y_low = fb_args.y_low_new
              /\ RangeAfter =
                     Scale(RAdd(RDiv(ROne, RSub(ROne, fb_args.reserve_ndc_top.a)), <<1, 10>>),
                           RangeBefore)
        /\ BottomTooSmall =>
              /\ fb_result.y_up = fb_args.y_up_new
              /\ RangeAfter =
                     Scale(RAdd(RDiv(ROne, RSub(ROne, fb_args.reserve_ndc_bottom.a)), <<1, 10>>),
                           RangeBefore)

\* space is added at the top of a linear axis and at the bottom of a
\* logarithmic one
C23_TopExtended == ReserveReturned /\ TopTooSmall /\ ~fb_args.y_log /\ fb_result.y_up # fb_args.y_up_new
C23_BottomExtendedLog == ReserveReturned /\ BottomTooSmall /\ fb_args.y_log /\ fb_result.y_low # fb_args.y_low_new

(***************************************************************************)
(* The boundaries merged from the objects (specification SpecMerge)        *)
(***************************************************************************)
Merged == fb_result # NoFB /\ fb_result.exc = "none"
AllSupported == \A i \in 1..Len(fb_args.objects) : fb_args.objects[i].class = "TH1"

\* the estimates of the objects with the user limits and without them
UserEstimate(i) ==
    find_boundaries_TH1(fb_args.objects[i], fb_args.x_low, fb_args.x_up, fb_args.y_low,
                        fb_args.y_up, fb_args.x_log, fb_args.y_log,
                        fb_args.y_account_for_errors)
NoUserEstimate(i) ==
    find_boundaries_TH1(fb_args.objects[i], None, None, None, None, fb_args.x_log,
                        fb_args.y_log, fb_args.y_account_for_errors)
Indices == 1..Len(fb_args.objects)
LeastOf(S) == CHOOSE v \in S : \A w \in S : Leq(v, w)
GreatestOf(S) == CHOOSE v \in S : \A w \in S : Leq(w, v)

\* C24: the boundaries merged from supported objects are the least of the
\* lower estimates and the greatest of the upper estimates of the objects, on
\* both axes, with the user limits and without them, for estimates of any sign.
C24_MergedMinMax ==
    Merged /\ AllSupported =>
        /\ fb_result.x_low_new = LeastOf({UserEstimate(i).x_low : i \in Indices})
        /\ fb_result.x_up_new = GreatestOf({UserEstimate(i).x_up : i \in Indices})
        /\ fb_result.y_low_new = LeastOf({UserEstimate(i).y_low : i \in Indices})
        /\ fb_result.y_up_new = GreatestOf({UserEstimate(i).y_up : i \in Indices})
        /\ fb_result.x_low_new_no_user = LeastOf({NoUserEstimate(i).x_low : i \in Indices})
        /\ fb_result.x_up_new_no_user = GreatestOf({NoUserEstimate(i).x_up : i \in Indices})
        /\ fb_result.y_low_new_no_user = LeastOf({NoUserEstimate(i).y_low : i \in Indices})
        /\ fb_result.y_up_new_no_user = GreatestOf({NoUserEstimate(i).y_up : i \in Indices})

\* what the code does instead: the upper boundaries are never below the
\* smallest positive float they start from
C24_MergedWithSeeds ==
    Merged /\ AllSupported =>
        /\ fb_result.x_low_new = LeastOf({UserEstimate(i).x_low : i \in Indices})
        /\ fb_result.x_up_new = GreatestOf({FLOAT_MIN} \cup {UserEstimate(i).x_up : i \in Indices})
        /\ fb_result.y_low_new = LeastOf({UserEstimate(i).y_low : i \in Indices})
        /\ fb_result.y_up_new = GreatestOf({FLOAT_MIN} \cup {UserEstimate(i).y_up : i \in Indices})
        /\ fb_result.x_low_new_no_user = LeastOf({NoUserEstimate(i).x_low : i \in Indices})
        /\ fb_result.x_up_new_no_user =
               GreatestOf({FLOAT_MIN} \cup {NoUserEstimate(i).x_up : i \in Indices})
        /\ fb_result.y_low_new_no_user = LeastOf({NoUserEstimate(i).y_low : i \in Indices})
        /\ fb_result.y_up_new_no_user =
               GreatestOf({FLOAT_MIN} \cup {NoUserEstimate(i).y_up : i \in Indices})

\* a histogram whose contents are all negative is merged
C24_AllNegative ==
    /\ Merged /\ AllSupported
    /\ \A i \in Indices : Sign(NoUserEstimate(i).y_up) < 0

(***************************************************************************)
(* Failing calls of define_plot (specification Spec)                       *)
(***************************************************************************)
DefinePlotFails == call'.op = "define_plot" /\ call'.exc # "none"

\* C25: a call of define_plot that ends in an error leaves the figure as it
\* was: the claimed cells, the list of regions and the current region are
\* unchanged.
C25_FailedCallNoEffect ==
    [][DefinePlotFails =>
           /\ figure'.cells_taken = figure.cells_taken
           /\ figure'._plot_specs = figure._plot_specs
           /\ figure'._current_plot_spec = figure._current_plot_spec]_vars

\* the errors raised before __compute_cells is called: the ValueErrors and
\* the IndexError of a call without arguments on a full figure
RaisedBeforeCells ==
    \/ call'.exc = "ValueError"
    \/ call'.exc = "IndexError" /\ call'.cols_rows = <<>>

\* what holds instead: the errors raised before the cells are claimed leave
\* the figure as it was, and no failing call changes the regions or the
\* current region
C25_EarlyErrorsNoEffect ==
    [][DefinePlotFails =>
           /\ RaisedBeforeCells => figure' = figure
           /\ figure'._plot_specs = figure._plot_specs
           /\ figure'._current_plot_spec = figure._current_plot_spec]_vars

(***************************************************************************)
(* Automatic placement next to spans (specification SpecPlacement)         *)
(***************************************************************************)
\* the span a region was defined on, read from its rectangle
SpanOf(fig, plot_spec) ==
    CHOOSE span \in ValidSpans(fig) : ExpectedRect(fig, span) = plot_spec._rel_coordinates

AutoPlaced == IsDefinePlot(call', 0) /\ call'.exc = "none" /\ ~SingleCell(figure)
NewRegion == figure'._plot_specs[Len(figure'._plot_specs)]

\* C26: after define_plot calls with valid spans, a region that define_plot()
\* places by itself lies on no cell of the span of a region defined before.
C26_AutoPlacementOutsideSpans ==
    [][AutoPlaced =>
           \A i \in 1..Len(figure._plot_specs) :
               SpanCells(figure, SpanOf(figure', NewRegion))
                   \cap SpanCells(figure, SpanOf(figure, figure._plot_specs[i])) = {}]_vars

\* what holds instead: the region lies on no cell of cells_taken, which holds
\* the spans of the regions in part only
C26_AutoPlacementOutsideClaimed ==
    [][AutoPlaced =>
           SpanCells(figure, SpanOf(figure', NewRegion)) \cap Claimed(figure) = {}]_vars

(***************************************************************************)
(* The order of the boundaries (specification SpecOrder)                   *)
(***************************************************************************)
\* C27: whenever find_boundaries returns, for a list of objects that is not
\* empty and any user limits and flags, x_low <= x_up and y_low <= y_up, also
\* when every object of the list is skipped.
C27_BoundariesOrdered ==
    Returned => Leq(fb_result.x_low, fb_result.x_up) /\ Leq(fb_result.y_low, fb_result.y_up)

\* the same for the lists that hold a histogram
C27_OrderedWithHistogram ==
    (Returned /\ ~AllSkipped(fb_args.objects))
        => Leq(fb_result.x_low, fb_result.x_up) /\ Leq(fb_result.y_low, fb_result.y_up)

\* the same for the lists that are all skipped, with limits that are forced
C27_OrderedWhenForced ==
    (Returned /\ AllSkipped(fb_args.objects) /\ fb_args.x_force_limits /\ fb_args.y_force_limits)
        => Leq(fb_result.x_low, fb_result.x_up) /\ Leq(fb_result.y_low, fb_result.y_up)

(***************************************************************************)
(* Exceptions of find_boundaries (specification SpecFB)                    *)
(***************************************************************************)
\* C28: find_boundaries returns a result and raises nothing for every list of
\* 1D histograms, also on a logarithmic y-axis for a histogram whose
\* contents (with the errors) are all zero or negative.
C28_NeverRaises ==
    (fb_result # NoFB /\ AllSupported) => fb_result.exc = "none"

\* what holds instead: on a linear y-axis and without space for a legend the
\* call returns for every list of 1D histograms
C28_LinearReturns ==
    (/\ fb_result # NoFB /\ AllSupported
     /\ ~fb_args.y_log
     /\ IsNone(fb_args.reserve_ndc_top) /\ IsNone(fb_args.reserve_ndc_bottom))
        => fb_result.exc = "none"

(***************************************************************************)
(* Keywords of define_plot on a 1x1 figure (specification SpecKwargs)      *)
(***************************************************************************)
\* the settings of a region that define_plot takes keywords for
PlotSettings(plot_spec) ==
    [x_log |-> plot_spec._axes[1].is_log, y_log |-> plot_spec._axes[2].is_log,
     z_log |-> plot_spec._axes[3].is_log, share_x |-> plot_spec._share_x,
     share_y |-> plot_spec._share_y, title |-> plot_spec._title]

Redefined == call'.op = "define_plot" /\ SingleCell(figure) /\ figure._current_plot_spec # 0
KeptBy(keys) ==
    \A key \in keys \ call'.kw.keys :
        PlotSettings(figure'._plot_specs[1])[key] = PlotSettings(figure._plot_specs[1])[key]

\* C29: define_plot on the region of a 1x1 figure changes the settings passed
\* as keywords only: x_log, y_log, z_log, share_x, share_y and title keep
\* their value when they are not passed.
C29_OtherSettingsKept == [][Redefined => KeptBy(PlotKeys)]_vars

\* what holds instead: the three log settings keep their value, share_x,
\* share_y and title are reset to None when they are not passed
C29_LogSettingsKept ==
    [][Redefined =>
           /\ KeptBy({"x_log", "y_log", "z_log"})
           /\ "share_x" \notin call'.kw.keys => figure'._plot_specs[1]._share_x = 0
           /\ "share_y" \notin call'.kw.keys => figure'._plot_specs[1]._share_y = 0
           /\ "title" \notin call'.kw.keys => figure'._plot_specs[1]._title = "None"]_vars

(***************************************************************************)
(* The drawing area of a region (specification SpecSurface)                *)
(***************************************************************************)
PadMarginsSet == mm_result # NoMM /\ mm_result.k = "pad"
AreaLeft ==
    /\ RLess(RAdd(mm_result.margins.left, mm_result.margins.right), ROne)
    /\ RLess(RAdd(mm_result.margins.bottom, mm_result.margins.top), ROne)

\* C30: for every region of every grid with the default margins and equal
\* ratios, the margins of the region relative to its TPad leave a drawing
\* area: left + right < 1 and bottom + top < 1.
C30_AreaLeftAnyGrid == PadMarginsSet => AreaLeft

\* what holds instead: the drawing area is left on a grid of at most 9
\* columns and 9 rows
C30_AreaLeftUpToNine ==
    (PadMarginsSet /\ figure.n_cols <= 9 /\ figure.n_rows <= 9) => AreaLeft

\* the margins of a cell of a grid of 9 columns and 9 rows
C30_NineColumns ==
    /\ PadMarginsSet /\ figure.n_cols = 9 /\ figure.n_rows = 9
    /\ OneCell(call.cols_rows)
    /\ RAdd(mm_result.margins.left, mm_result.margins.right) = <<9, 10>>

\* the margins of a cell of a grid of 11 columns: left + right = 11/10
C30_ElevenColumns ==
    /\ PadMarginsSet /\ figure.n_cols = 11
    /\ OneCell(call.cols_rows)
    /\ RAdd(mm_result.margins.left, mm_result.margins.right) = <<11, 10>>

====
